---- MODULE Spec2Model ----
(***************************************************************************)
(* Transaction pool of mjoy-go (core/txprocessor/tx_pool.go): the two-tier *)
(* pending/queued pool, its admission, promotion, demotion, rate limiting, *)
(* reset on chain-head events and idle eviction.                           *)
(*                                                                         *)
(* Every public entry point runs under the pool mutex, so each one is one  *)
(* atomic action.  The handlers are written as operators on a pool record  *)
(* p (the fields of TxPool) that return the record after the call, and the *)
(* actions install the record in the variables.                            *)
(***************************************************************************)
EXTENDS Integers, Sequences, FiniteSets, TLC

VARIABLES
    config,         \* TxPoolConfig, fixed at construction
    pending,        \* pool.pending : address -> txList (strict)
    queue,          \* pool.queue   : address -> txList (non strict)
    beats,          \* pool.beats   : address -> time of last heartbeat
    all,            \* pool.all     : hash -> transaction
    locals,         \* pool.locals.accounts
    currentState,   \* pool.currentState : nonce and balance of each account
    pendingState,   \* pool.pendingState : managed nonce of each account
    head,           \* loop's head : the block of the last handled event
    journal,        \* pool.journal : whether a writer is active
    now,            \* the wall clock read by time.Now / time.Since
    running,        \* whether the loop goroutine is alive (it has not panicked)
    txFeed,         \* pool.txFeed : the sends spawned with go, and what each
                    \* subscriber has received
    mu,             \* pool.mu : the goroutine holding the write lock, and
                    \* those holding the read lock
    calls,          \* the call each goroutine is in, and how far it has got
    shutdown,       \* Stop's position, whether the loop goroutine has
                    \* returned, pool.chainHeadSub and pool.wg
    signed,         \* the transactions made by SignTx, each with its
                    \* tx.from cache, and what the last Sender returned
    chainHeadCh     \* pool.chainHeadCh : the events waiting in the channel,
                    \* with those the chain has sent and the loop received

vars == <<config, pending, queue, beats, all, locals, currentState,
          pendingState, head, journal, now, running, txFeed,
          mu, calls, shutdown, signed, chainHeadCh>>

-----------------------------------------------------------------------------
(* Bounds of the model *)

MaxNonce == 2       \* transactions carry nonces 0..MaxNonce

(* Program constants *)

MaxTxSize    == 32768   \* 32*1024, validateTx
MaxReorgDepth == 64     \* reset

Addr    == {"A", "B"}
Amounts == {1, 2}

-----------------------------------------------------------------------------
(* Transactions.  amount is <<>> for a nil *big.Int and <<v>> otherwise;   *)
(* sig is the address of the signing key, or "bad" when recovery fails.    *)

GoodTxs == [nonce : 0..MaxNonce, amount : {<<v>> : v \in Amounts},
            size : {1}, sig : Addr]

BadTxs  == [nonce : {0}, amount : {<<>>, <<-1>>, <<1>>},
            size : {MaxTxSize, MaxTxSize + 1}, sig : {"A", "bad"}]

Txs == GoodTxs \cup BadTxs

\* tx.Hash(): the digest of the whole encoding, signature included
Hash(tx) == <<tx.nonce, tx.amount, tx.size, tx.sig>>

\* tx.Cost(): the amount
Cost(tx) == tx.amount[1]

\* transaction.Sender(pool.signer, tx)
SenderErr(tx) == tx.sig \notin Addr
Sender(tx)    == tx.sig

-----------------------------------------------------------------------------
(* txList: the items of one account, nonce -> transaction *)

EmptyList == [n \in {} |-> 0]

ListLen(l) == Cardinality(DOMAIN l)

Empty(l) == DOMAIN l = {}

Keep(l, S) == [n \in S |-> l[n]]

SetMin(S) == CHOOSE x \in S : \A y \in S : x <= y
SetMax(S) == CHOOSE x \in S : \A y \in S : x >= y

RECURSIVE SortedSeq(_)
SortedSeq(S) == IF S = {} THEN <<>>
                ELSE <<SetMin(S)>> \o SortedSeq(S \ {SetMin(S)})

\* Flatten: the transactions in nonce order
Flatten(l) == LET ns == SortedSeq(DOMAIN l)
              IN  [i \in 1..Len(ns) |-> l[ns[i]]]

Overlaps(l, tx) == tx.nonce \in DOMAIN l

\* Add: any replacement is accepted; old is the displaced transaction
ListAdd(l, tx) ==
    [inserted |-> TRUE,
     old      |-> IF tx.nonce \in DOMAIN l THEN <<l[tx.nonce]>> ELSE <<>>,
     list     |-> [n \in DOMAIN l \cup {tx.nonce} |->
                      IF n = tx.nonce THEN tx ELSE l[n]]]

\* Forward: remove every transaction with nonce < threshold
Forward(l, threshold) ==
    LET gone == {n \in DOMAIN l : n < threshold}
    IN  [removed |-> {l[n] : n \in gone}, list |-> Keep(l, DOMAIN l \ gone)]

\* Filter: remove every transaction costing more than balance; a strict
\* list also gives up everything after the first removed nonce
Filter(l, balance, strict) ==
    LET gone == {n \in DOMAIN l : Cost(l[n]) > balance}
        inv  == IF strict /\ gone # {}
                THEN {n \in DOMAIN l \ gone : n > SetMin(gone)}
                ELSE {}
    IN  [removed  |-> {l[n] : n \in gone},
         invalids |-> Flatten(Keep(l, inv)),
         list     |-> Keep(l, (DOMAIN l \ gone) \ inv)]

\* Ready: remove the gap-free run that starts at start
Ready(l, start) ==
    LET run == {n \in DOMAIN l : n >= start /\ \A m \in start..n : m \in DOMAIN l}
    IN  [ready |-> Flatten(Keep(l, run)), list |-> Keep(l, DOMAIN l \ run)]

\* Cap: keep the threshold lowest nonces
Cap(l, threshold) ==
    LET ns   == SortedSeq(DOMAIN l)
        kept == {ns[i] : i \in 1..(IF threshold < Len(ns) THEN threshold ELSE Len(ns))}
    IN  [drops |-> Flatten(Keep(l, DOMAIN l \ kept)), list |-> Keep(l, kept)]

\* Remove: remove the exact transaction; a strict list also gives up
\* everything after it
ListRemove(l, tx, strict) ==
    IF tx.nonce \in DOMAIN l /\ l[tx.nonce] = tx
    THEN LET inv == IF strict THEN {n \in DOMAIN l : n > tx.nonce} ELSE {}
         IN  [removed  |-> TRUE,
              invalids |-> Flatten(Keep(l, inv)),
              list     |-> Keep(l, (DOMAIN l \ {tx.nonce}) \ inv)]
    ELSE [removed |-> FALSE, invalids |-> <<>>, list |-> l]

-----------------------------------------------------------------------------
(* Maps with a changing key set *)

Put(f, k, v) == [x \in DOMAIN f \cup {k} |-> IF x = k THEN v ELSE f[x]]
Del(f, k)    == [x \in DOMAIN f \ {k} |-> f[x]]
ListOf(m, a) == IF a \in DOMAIN m THEN m[a] ELSE EmptyList

-----------------------------------------------------------------------------
(* Errors returned by add *)

ErrOversizedData          == "oversized data"
ErrWrongTransactionAmount == "transaction's Amount is wrong"
ErrNegativeValue          == "negative value"
ErrInvalidSender          == "invalid sender"
ErrNonceTooLow            == "nonce too low"
ErrInsufficientFunds      == "insufficient funds for value"
ErrKnown                  == "known transaction"
ErrPoolFull               == "pool.all > config.GlobalQueue"
NoErr                     == "nil"

\* a faulty validateTx: the balance is checked before the nonce
validateTx_fundsFirst(p, tx) ==
    IF tx.size > MaxTxSize THEN ErrOversizedData
    ELSE IF tx.amount = <<>> THEN ErrWrongTransactionAmount
    ELSE IF tx.amount[1] < 0 THEN ErrNegativeValue
    ELSE IF SenderErr(tx) THEN ErrInvalidSender
    ELSE IF p.cur.balance[Sender(tx)] < Cost(tx) THEN ErrInsufficientFunds
    ELSE IF p.cur.nonce[Sender(tx)] > tx.nonce THEN ErrNonceTooLow
    ELSE NoErr

\* validateTx: the first failing check decides
validateTx(p, tx) ==
    IF tx.size > MaxTxSize THEN ErrOversizedData
    ELSE IF tx.amount = <<>> THEN ErrWrongTransactionAmount
    ELSE IF tx.amount[1] < 0 THEN ErrNegativeValue
    ELSE IF SenderErr(tx) THEN ErrInvalidSender
    ELSE IF p.cur.nonce[Sender(tx)] > tx.nonce THEN ErrNonceTooLow
    ELSE IF p.cur.balance[Sender(tx)] < Cost(tx) THEN ErrInsufficientFunds
    ELSE NoErr

\* enqueueTx: insert into the future queue; a transaction that displaces a
\* queued one is reported as a replacement and is not recorded in all
enqueueTx(p, hash, tx) ==
    LET from == Sender(tx)
        r    == ListAdd(ListOf(p.queue, from), tx)
        q    == [p EXCEPT !.queue = Put(p.queue, from, r.list)]
    IN  IF r.old # <<>>
        THEN [p |-> q, replace |-> TRUE]
        ELSE [p |-> [q EXCEPT !.all = Put(q.all, hash, tx)], replace |-> FALSE]

\* the outcomes of a write to a file: all of it is written, none of it,
\* or a part of it
IOs == {"ok", "fail", "torn"}

\* what a torn write leaves in the file: bytes that do not decode
Junk == [nonce |-> 0, amount |-> <<>>, size |-> 0, sig |-> "junk"]

\* msgp.Encode(w, tx) under the outcome io: the records the file gains
Encode(io, tx) ==
    IF io = "ok" THEN <<tx>> ELSE IF io = "torn" THEN <<Junk>> ELSE <<>>

\* journal.insert: append to the writer, an error when none is active
insert(p, tx) ==
    IF ~p.writer THEN p
    ELSE [p EXCEPT !.journaled = @ \o Encode(p.io, tx)]

\* a faulty journalTx: a transaction that could not be journaled is taken
\* out of the pool again
journalTx_strict(p, from, tx) ==
    IF ~config.Journal \/ config.NoLocals \/ from \notin p.locals THEN p
    ELSE IF ~p.writer \/ p.io # "ok"
    THEN [p EXCEPT !.all = [h \in DOMAIN p.all \ {Hash(tx)} |-> p.all[h]]]
    ELSE insert(p, tx)

\* journalTx: only when the pool has a journal (journaling is on and
\* locals are not disabled) and the sender is local
journalTx(p, from, tx) ==
    IF ~config.Journal \/ config.NoLocals \/ from \notin p.locals THEN p
    ELSE insert(p, tx)

\* promoteTx: insert into the pending list, move the heartbeat and the
\* managed nonce, and send the event
promoteTx(p, addr, hash, tx) ==
    LET r == ListAdd(ListOf(p.pending, addr), tx)
        q == [p EXCEPT !.pending = Put(p.pending, addr, r.list)]
    IN  IF ~r.inserted
        THEN [[p EXCEPT !.pending = Put(p.pending, addr, ListOf(p.pending, addr))]
                 EXCEPT !.all = Del(p.all, hash)]
        ELSE [q EXCEPT !.all    = IF hash \in DOMAIN q.all THEN q.all
                                  ELSE Put(q.all, hash, tx),
                       !.beats  = Put(q.beats, addr, now),
                       !.pnonce = [q.pnonce EXCEPT ![addr] = tx.nonce + 1],
                       !.events = Append(q.events, tx)]

\* the early returns of add: a known hash, a failed validation, a full pool
addChecks(p, tx) ==
    IF Hash(tx) \in DOMAIN p.all THEN ErrKnown
    ELSE IF validateTx(p, tx) # NoErr THEN validateTx(p, tx)
    ELSE IF Cardinality(DOMAIN p.all) >= config.GlobalSlots + config.GlobalQueue
    THEN ErrPoolFull
    ELSE NoErr

\* a faulty overlap test: the pending list is never looked at
overlapsPending_never(p, from, tx) == FALSE

\* list := pool.pending[from]; list != nil && list.Overlaps(tx)
overlapsPending(p, from, tx) ==
    from \in DOMAIN p.pending /\ Overlaps(p.pending[from], tx)

\* a faulty account set: adding an account forgets the ones added before
accountSet_add_latest(as, addr) == {addr}

\* accountSet.add: as.accounts[addr] = struct{}{}
accountSet_add(as, addr) == as \cup {addr}

\* add after its checks: replace a pending transaction in place, or push
\* into the queue, mark the sender local and journal
addInsert(p, tx, local) ==
    LET hash == Hash(tx)
        from == Sender(tx)
    IN  IF overlapsPending(p, from, tx)
        THEN LET r == ListAdd(p.pending[from], tx)
                 q == [p EXCEPT !.pending = Put(p.pending, from, r.list)]
             IN  IF r.old # <<>>
                 THEN [p |-> q, replace |-> TRUE]
                 ELSE LET q1 == [q EXCEPT !.all = Put(q.all, hash, tx)]
                          q2 == journalTx(q1, from, tx)
                      IN  [p |-> [q2 EXCEPT !.events = Append(q2.events, tx)],
                           replace |-> TRUE]
        ELSE LET e  == enqueueTx(p, hash, tx)
                 q1 == IF local
                       THEN [e.p EXCEPT !.locals = accountSet_add(e.p.locals, from)]
                       ELSE e.p
             IN  [p |-> journalTx(q1, from, tx), replace |-> e.replace]

\* a faulty add: the pool is found full only after the insertion
add_fullAfterInsert(p, tx, local) ==
    LET err == addChecks(p, tx)
        ins == addInsert(p, tx, local)
    IN  IF err = ErrPoolFull
        THEN [p |-> ins.p, replace |-> FALSE, err |-> err]
        ELSE IF err # NoErr
        THEN [p |-> p, replace |-> FALSE, err |-> err]
        ELSE [p |-> ins.p, replace |-> ins.replace, err |-> NoErr]

\* add: validate and insert; replace is TRUE when the transaction took the
\* place of a pending or queued one
add(p, tx, local) ==
    LET err == addChecks(p, tx)
        ins == addInsert(p, tx, local)
    IN  IF err # NoErr
        THEN [p |-> p, replace |-> FALSE, err |-> err]
        ELSE [p |-> ins.p, replace |-> ins.replace, err |-> NoErr]

RECURSIVE enqueueAll(_, _)
enqueueAll(p, txs) ==
    IF txs = <<>> THEN p
    ELSE enqueueAll(enqueueTx(p, Hash(Head(txs)), Head(txs)).p, Tail(txs))

\* removeTx: drop one transaction, moving what followed it in the pending
\* list back to the future queue
removeTx(p, hash) ==
    IF hash \notin DOMAIN p.all THEN p
    ELSE
    LET tx   == p.all[hash]
        addr == Sender(tx)
        q    == [p EXCEPT !.all = Del(p.all, hash)]
        rp   == ListRemove(ListOf(q.pending, addr), tx, TRUE)
        rq   == ListRemove(ListOf(q.queue, addr), tx, FALSE)
        lowered(s) == IF s.pnonce[addr] > tx.nonce
                      THEN [s EXCEPT !.pnonce = [s.pnonce EXCEPT ![addr] = tx.nonce]]
                      ELSE s
    IN  IF addr \in DOMAIN q.pending /\ rp.removed
        THEN IF Empty(rp.list)
             THEN lowered([q EXCEPT !.pending = Del(q.pending, addr),
                                    !.beats = Del(q.beats, addr)])
             ELSE lowered(enqueueAll([q EXCEPT !.pending = Put(q.pending, addr, rp.list)],
                                     rp.invalids))
        ELSE IF addr \in DOMAIN q.queue
        THEN IF Empty(rq.list)
             THEN [q EXCEPT !.queue = Del(q.queue, addr)]
             ELSE [q EXCEPT !.queue = Put(q.queue, addr, rq.list)]
        ELSE q

-----------------------------------------------------------------------------
(* promoteExecutables *)

RECURSIVE dropAll(_, _)
\* delete(pool.all, hash) for each transaction of a set
dropAll(m, txs) ==
    IF txs = {} THEN m
    ELSE LET t == CHOOSE x \in txs : TRUE
         IN  dropAll(Del(m, Hash(t)), txs \ {t})

Range(s) == {s[i] : i \in DOMAIN s}

RECURSIVE promoteAll(_, _, _)
promoteAll(p, addr, txs) ==
    IF txs = <<>> THEN p
    ELSE promoteAll(promoteTx(p, addr, Hash(Head(txs)), Head(txs)), addr, Tail(txs))

\* a faulty threshold: no nonce is ever too old
staleBelow_zero(p, addr) == 0

\* pool.currentState.GetNonce(addr): below it a transaction is too old
staleBelow(p, addr) == p.cur.nonce[addr]

\* a faulty start: the lowest queued nonce, whatever the managed nonce
readyFrom_lowest(p, addr) == SetMin(DOMAIN p.queue[addr])

\* a faulty start: the nonce of the chain state, not the managed one
readyFrom_chain(p, addr) == p.cur.nonce[addr]

\* pool.pendingState.GetNonce(addr): where the executable run starts
readyFrom(p, addr) == p.pnonce[addr]

\* a faulty promoteAccount: the queue of a sender is never cut to
\* AccountQueue
promoteAccount_uncapped(p, addr) ==
    IF addr \notin DOMAIN p.queue THEN p
    ELSE
    LET fw == Forward(p.queue[addr], staleBelow(p, addr))
        fl == Filter(fw.list, p.cur.balance[addr], FALSE)
        rd == Ready(fl.list, readyFrom(p, addr))
        p1 == [p EXCEPT !.all = dropAll(dropAll(p.all, fw.removed), fl.removed)]
        p2 == promoteAll(p1, addr, rd.ready)
    IN  IF Empty(rd.list)
        THEN [p2 EXCEPT !.queue = Del(p2.queue, addr)]
        ELSE [p2 EXCEPT !.queue = Put(p2.queue, addr, rd.list)]

\* the body of the loop over accounts: forward, filter, promote, cap
promoteAccount(p, addr) ==
    IF addr \notin DOMAIN p.queue THEN p
    ELSE
    LET fw == Forward(p.queue[addr], staleBelow(p, addr))
        fl == Filter(fw.list, p.cur.balance[addr], FALSE)
        rd == Ready(fl.list, readyFrom(p, addr))
        p1 == [p EXCEPT !.all = dropAll(dropAll(p.all, fw.removed), fl.removed)]
        p2 == promoteAll(p1, addr, rd.ready)
        cp == IF addr \notin p2.locals
              THEN Cap(rd.list, config.AccountQueue)
              ELSE [drops |-> <<>>, list |-> rd.list]
        p3 == [p2 EXCEPT !.all = dropAll(p2.all, Range(cp.drops))]
    IN  IF Empty(cp.list)
        THEN [p3 EXCEPT !.queue = Del(p3.queue, addr)]
        ELSE [p3 EXCEPT !.queue = Put(p3.queue, addr, cp.list)]

RECURSIVE promoteAccounts(_, _)
promoteAccounts(p, accounts) ==
    IF accounts = <<>> THEN p
    ELSE promoteAccounts(promoteAccount(p, Head(accounts)), Tail(accounts))

RECURSIVE SumLen(_, _)
SumLen(m, S) ==
    IF S = {} THEN 0
    ELSE LET a == CHOOSE x \in S : TRUE
         IN  ListLen(m[a]) + SumLen(m, S \ {a})

\* stats: the number of transactions of a map of lists
Count(m) == SumLen(m, DOMAIN m)

\* a faulty shrink: the dropped transaction stays in all
shrink_keepAll(p, addr) ==
    LET cp == Cap(p.pending[addr], ListLen(p.pending[addr]) - 1)
        lo == IF cp.drops = <<>> THEN p.pnonce[addr]
              ELSE IF p.pnonce[addr] > cp.drops[1].nonce
              THEN cp.drops[1].nonce ELSE p.pnonce[addr]
    IN  [p EXCEPT !.pending = Put(p.pending, addr, cp.list),
                  !.pnonce  = [p.pnonce EXCEPT ![addr] = lo]]

\* list.Cap(list.Len() - 1) on a pending list, with the bookkeeping of the
\* dropped transaction
shrink(p, addr) ==
    LET cp == Cap(p.pending[addr], ListLen(p.pending[addr]) - 1)
        lo == IF cp.drops = <<>> THEN p.pnonce[addr]
              ELSE IF p.pnonce[addr] > cp.drops[1].nonce
              THEN cp.drops[1].nonce ELSE p.pnonce[addr]
    IN  [p EXCEPT !.pending = Put(p.pending, addr, cp.list),
                  !.all     = dropAll(p.all, Range(cp.drops)),
                  !.pnonce  = [p.pnonce EXCEPT ![addr] = lo]]

RECURSIVE shrinkEach(_, _)
\* one pass of the for loop over offenders: s is [p, pending]
shrinkEach(s, offs) ==
    IF offs = <<>> THEN s
    ELSE shrinkEach([p |-> shrink(s.p, Head(offs)), pending |-> s.pending - 1],
                    Tail(offs))

RECURSIVE equalize(_, _, _)
\* reduce all but the last offender until below the limit or at threshold
equalize(s, offs, threshold) ==
    IF s.pending > config.GlobalSlots
       /\ ListLen(s.p.pending[offs[Len(offs) - 1]]) > threshold
    THEN equalize(shrinkEach(s, SubSeq(offs, 1, Len(offs) - 1)), offs, threshold)
    ELSE s

RECURSIVE popSpammers(_, _, _)
\* the loop that pops the spammers, largest pending list first
popSpammers(s, spammers, offs) ==
    IF s.pending > config.GlobalSlots /\ spammers # <<>>
    THEN LET offender == Head(spammers)
             offs1    == Append(offs, offender)
             s1 == IF Len(offs1) > 1
                   THEN equalize(s, offs1, ListLen(s.p.pending[offender]))
                   ELSE s
         IN  popSpammers(s1, Tail(spammers), offs1)
    ELSE [p |-> s.p, pending |-> s.pending, offenders |-> offs]

RECURSIVE reduceAll(_, _)
\* reduce every offender until below the limit or at the minimum allowance
reduceAll(s, offs) ==
    IF s.pending > config.GlobalSlots
       /\ ListLen(s.p.pending[offs[Len(offs)]]) > config.AccountSlots
    THEN reduceAll(shrinkEach(s, offs), offs)
    ELSE s

RECURSIVE SortBy(_, _, _)
\* the members of S, smallest key first, ties in the order of ord
SortBy(S, key, ord) ==
    IF S = {} THEN <<>>
    ELSE LET pos(a) == CHOOSE i \in DOMAIN ord : ord[i] = a
             m == CHOOSE a \in S : \A b \in S :
                     key[a] < key[b] \/ (key[a] = key[b] /\ pos(a) <= pos(b))
         IN  <<m>> \o SortBy(S \ {m}, key, ord)

Reverse(s) == [i \in DOMAIN s |-> s[Len(s) + 1 - i]]

\* a faulty test: local senders are high rollers too
isSpammer_anyone(p, a) == ListLen(p.pending[a]) > config.AccountSlots

\* a faulty test: nobody is a high roller
isSpammer_nobody(p, a) == FALSE

\* only evict transactions from high rollers that are not local
isSpammer(p, a) ==
    a \notin p.locals /\ ListLen(p.pending[a]) > config.AccountSlots

\* the global pending limit: equalize the non local high rollers
capPending(p, ord) ==
    LET total == Count(p.pending)
        spam  == {a \in DOMAIN p.pending : isSpammer(p, a)}
        prio  == [a \in spam |-> ListLen(p.pending[a])]
        s1    == popSpammers([p |-> p, pending |-> total],
                             Reverse(SortBy(spam, prio, ord)), <<>>)
        s2    == IF s1.pending > config.GlobalSlots /\ Len(s1.offenders) > 0
                 THEN reduceAll([p |-> s1.p, pending |-> s1.pending], s1.offenders)
                 ELSE s1
    IN  IF total > config.GlobalSlots THEN s2.p ELSE p

\* pool.beats[addr]: the zero time when the account has no heartbeat
BeatOf(p, a) == IF a \in DOMAIN p.beats THEN p.beats[a] ELSE 0

RECURSIVE removeSeq(_, _)
removeSeq(p, txs) ==
    IF txs = <<>> THEN p
    ELSE removeSeq(removeTx(p, Hash(Head(txs))), Tail(txs))

RECURSIVE dropQueued(_, _, _)
\* the loop over the accounts sorted by heartbeat, taken from the end
dropQueued(p, drop, addresses) ==
    IF drop > 0 /\ Len(addresses) > 0
    THEN LET addr == addresses[Len(addresses)]
             rest == SubSeq(addresses, 1, Len(addresses) - 1)
             txs  == Flatten(p.queue[addr])
             size == Len(txs)
         IN  IF size <= drop
             THEN dropQueued(removeSeq(p, txs), drop - size, rest)
             ELSE dropQueued(removeSeq(p, Reverse(SubSeq(txs, size - drop + 1, size))),
                             0, rest)
    ELSE p

\* the global queue limit: drop from the non local accounts
capQueued(p, ord) ==
    LET queued == Count(p.queue)
        cand   == {a \in DOMAIN p.queue : a \notin p.locals}
        key    == [a \in cand |-> BeatOf(p, a)]
    IN  IF queued > config.GlobalQueue
        THEN dropQueued(p, queued - config.GlobalQueue, SortBy(cand, key, ord))
        ELSE p

\* promoteExecutables(accounts); ord is the order in which Go happens to
\* iterate its maps and break ties
promoteExecutables(p, accounts, ord) ==
    capQueued(capPending(promoteAccounts(p, accounts), ord), ord)

\* promoteExecutables(nil): every account of the queue
QueueAccounts(p, ord) == SelectSeq(ord, LAMBDA a : a \in DOMAIN p.queue)

-----------------------------------------------------------------------------
(* demoteUnexecutables *)

\* the body of the loop over the pending accounts
demoteAccount(p, addr) ==
    LET nonce == staleBelow(p, addr)
        fw == Forward(p.pending[addr], nonce)
        fl == Filter(fw.list, p.cur.balance[addr], TRUE)
        p1 == [p EXCEPT !.all = dropAll(dropAll(p.all, fw.removed), fl.removed)]
        p2 == enqueueAll(p1, fl.invalids)
        gap == ListLen(fl.list) > 0 /\ nonce \notin DOMAIN fl.list
        cp == IF gap THEN Cap(fl.list, 0) ELSE [drops |-> <<>>, list |-> fl.list]
        p3 == enqueueAll(p2, cp.drops)
    IN  IF Empty(cp.list)
        THEN [p3 EXCEPT !.pending = Del(p3.pending, addr),
                        !.beats   = Del(p3.beats, addr)]
        ELSE [p3 EXCEPT !.pending = Put(p3.pending, addr, cp.list)]

RECURSIVE demoteAccounts(_, _)
demoteAccounts(p, S) ==
    IF S = {} THEN p
    ELSE LET a == CHOOSE x \in S : TRUE
         IN  demoteAccounts(demoteAccount(p, a), S \ {a})

demoteUnexecutables(p) == demoteAccounts(p, DOMAIN p.pending)

-----------------------------------------------------------------------------
(* addTx, addTxsLocked *)

addTx(p, tx, local, ord) ==
    LET r == add(p, tx, local)
    IN  IF r.err # NoErr THEN [p |-> p, errs |-> <<r.err>>]
        ELSE IF ~r.replace
        THEN [p |-> promoteExecutables(r.p, <<Sender(tx)>>, ord), errs |-> <<NoErr>>]
        ELSE [p |-> r.p, errs |-> <<NoErr>>]

RECURSIVE addEach(_, _, _)
\* the loop of addTxsLocked: s is [p, errs, dirty]
addEach(s, txs, local) ==
    IF txs = <<>> THEN s
    ELSE LET r == add(s.p, Head(txs), local)
         IN  addEach([p     |-> r.p,
                      errs  |-> Append(s.errs, r.err),
                      dirty |-> IF r.err = NoErr /\ ~r.replace
                                THEN s.dirty \cup {Sender(Head(txs))}
                                ELSE s.dirty],
                     Tail(txs), local)

addTxsLocked(p, txs, local, ord) ==
    LET s == addEach([p |-> p, errs |-> <<>>, dirty |-> {}], txs, local)
    IN  IF s.dirty # {}
        THEN [p |-> promoteExecutables(s.p, SelectSeq(ord, LAMBDA a : a \in s.dirty), ord),
              errs |-> s.errs]
        ELSE [p |-> s.p, errs |-> s.errs]

-----------------------------------------------------------------------------
(* The chain the pool watches: a small block tree with two branches.  The   *)
(* state at a block is the genesis state after the transactions of the     *)
(* chain that ends in the block.                                           *)

Tx(a, n, v) == [nonce |-> n, amount |-> <<v>>, size |-> 1, sig |-> a]

NoBlock == "none"

Blocks == [G  |-> [parent |-> NoBlock, number |-> 0, txs |-> <<>>],
           X1 |-> [parent |-> "G",  number |-> 1, txs |-> <<Tx("A", 0, 1), Tx("B", 0, 1)>>],
           X2 |-> [parent |-> "X1", number |-> 2, txs |-> <<Tx("A", 1, 1)>>],
           Y1 |-> [parent |-> "G",  number |-> 1, txs |-> <<Tx("B", 0, 1), Tx("B", 1, 1)>>]]

BlockIds == DOMAIN Blocks

\* headers the chain may announce besides those of Blocks: Z1 whose parent
\* is not in the database, W1 whose state is not in the database, M2 whose
\* body is not in the database, and F, far ahead during a fast sync, of
\* which only the header is known
ExtraBlocks == [Z1 |-> [parent |-> "Z0", number |-> 1, txs |-> <<Tx("A", 0, 1)>>],
                W1 |-> [parent |-> "G",  number |-> 1, txs |-> <<Tx("A", 0, 1), Tx("A", 1, 1)>>],
                M2 |-> [parent |-> "Y1", number |-> 2, txs |-> <<>>],
                F  |-> [parent |-> "E",  number |-> 66, txs |-> <<>>]]

Headers == Blocks @@ ExtraBlocks

HeaderIds == DOMAIN Headers

\* the blocks chain.GetBlock finds
Stored == BlockIds \cup {"Z1", "W1"}

\* the blocks whose state chain.StateAt can load
HasState == BlockIds \cup {"M2"}

\* chain.GetBlock(hash, number): the block, or nil
GetBlock(b) == IF b \in Stored THEN b ELSE NoBlock

GenesisState == [nonce   |-> [a \in Addr |-> 0],
                 balance |-> [a \in Addr |-> 2]]

RECURSIVE Apply(_, _)
Apply(st, txs) ==
    IF txs = <<>> THEN st
    ELSE LET t == Head(txs)
         IN  Apply([nonce   |-> [st.nonce EXCEPT ![t.sig] = @ + 1],
                    balance |-> [st.balance EXCEPT ![t.sig] = @ - Cost(t)]],
                   Tail(txs))

RECURSIVE StateAt(_)
\* chain.StateAt(header.StateHash)
StateAt(b) ==
    IF Headers[b].parent = NoBlock THEN GenesisState
    ELSE Apply(StateAt(Headers[b].parent), Headers[b].txs)

Abs(x) == IF x < 0 THEN -x ELSE x

\* transaction.TxDifference(a, b): a without the transactions of b
TxDifference(a, b) ==
    SelectSeq(a, LAMBDA t : \A i \in DOMAIN b : Hash(b[i]) # Hash(t))

RECURSIVE Walk(_, _, _, _)
\* the three loops of reset that walk both branches back to their fork;
\* a parent that GetBlock does not find ends the walk
Walk(rem, add_, discarded, included) ==
    IF rem = NoBlock \/ add_ = NoBlock
    THEN [ok |-> FALSE, discarded |-> discarded, included |-> included]
    ELSE IF Headers[rem].number > Headers[add_].number
    THEN Walk(GetBlock(Headers[rem].parent), add_,
              discarded \o Headers[rem].txs, included)
    ELSE IF Headers[add_].number > Headers[rem].number
    THEN Walk(rem, GetBlock(Headers[add_].parent),
              discarded, included \o Headers[add_].txs)
    ELSE IF rem # add_
    THEN Walk(GetBlock(Headers[rem].parent), GetBlock(Headers[add_].parent),
              discarded \o Headers[rem].txs, included \o Headers[add_].txs)
    ELSE [ok |-> TRUE, discarded |-> discarded, included |-> included]

\* a reset that reinjects the new branch's transactions instead
Reinject_swapped(oldHead, newHead) ==
    LET w == Walk(GetBlock(oldHead), GetBlock(newHead), <<>>, <<>>)
    IN  IF oldHead # NoBlock /\ oldHead # Headers[newHead].parent
        THEN [ok |-> w.ok, panic |-> FALSE,
              txs |-> TxDifference(w.included, w.discarded)]
        ELSE [ok |-> TRUE, panic |-> FALSE, txs |-> <<>>]

\* a faulty reset: a reorg is repaired however deep it is
Reinject_anyDepth(oldHead, newHead) ==
    IF oldHead # NoBlock /\ oldHead # Headers[newHead].parent
    THEN IF GetBlock(oldHead) = NoBlock \/ GetBlock(newHead) = NoBlock
         THEN [ok |-> FALSE, panic |-> TRUE, txs |-> <<>>]
         ELSE LET w == Walk(GetBlock(oldHead), GetBlock(newHead), <<>>, <<>>)
              IN  [ok |-> w.ok, panic |-> FALSE,
                   txs |-> TxDifference(w.discarded, w.included)]
    ELSE [ok |-> TRUE, panic |-> FALSE, txs |-> <<>>]

\* the transactions reset reinjects, whether the walk found the ancestors
\* it needed, and whether rem or add was nil when the first loop read its
\* number (rem.NumberU64() on a nil block)
Reinject(oldHead, newHead) ==
    IF oldHead # NoBlock /\ oldHead # Headers[newHead].parent
    THEN IF Abs(Headers[oldHead].number - Headers[newHead].number) > MaxReorgDepth
         THEN [ok |-> TRUE, panic |-> FALSE, txs |-> <<>>]
         ELSE IF GetBlock(oldHead) = NoBlock \/ GetBlock(newHead) = NoBlock
         THEN [ok |-> FALSE, panic |-> TRUE, txs |-> <<>>]
         ELSE LET w == Walk(GetBlock(oldHead), GetBlock(newHead), <<>>, <<>>)
              IN  [ok |-> w.ok, panic |-> FALSE,
                   txs |-> TxDifference(w.discarded, w.included)]
    ELSE [ok |-> TRUE, panic |-> FALSE, txs |-> <<>>]

\* a faulty reset: the managed nonces stay at the nonces of the new state
bumpNonces_skip(p, S) == p

RECURSIVE bumpNonces(_, _)
\* pendingState.SetNonce(addr, last nonce + 1) for every pending account
bumpNonces(p, S) ==
    IF S = {} THEN p
    ELSE LET a == CHOOSE x \in S : TRUE
         IN  bumpNonces([p EXCEPT !.pnonce =
                            [p.pnonce EXCEPT ![a] = SetMax(DOMAIN p.pending[a]) + 1]],
                        S \ {a})

\* reset(oldHead, newHead): the new state is installed, the discarded
\* transactions are injected, the pending lists are purged and their
\* nonces restored, and the queue is promoted; each step is bound before
\* the next one is taken
reset(p, oldHead, newHead, ord) ==
    LET ri == Reinject(oldHead, newHead)
    IN  IF ri.panic THEN [p EXCEPT !.crashed = TRUE]
        ELSE IF ~ri.ok \/ newHead \notin HasState THEN p
        ELSE CHOOSE r \in
                 {promoteExecutables(p4, QueueAccounts(p4, ord), ord) :
                    p4 \in {bumpNonces(p3, DOMAIN p3.pending) :
                       p3 \in {demoteUnexecutables(p2) :
                          p2 \in {addTxsLocked([p EXCEPT !.cur = StateAt(newHead),
                                                  !.pnonce = StateAt(newHead).nonce],
                                               ri.txs, FALSE, ord).p}}}} : TRUE

-----------------------------------------------------------------------------
\* a file that does not exist
NoFile == [exists |-> FALSE, recs |-> <<>>]

\* journal.rotate is not running
NoRotation == [pc |-> "idle", snapshot |-> <<>>, left |-> <<>>, pre |-> NoFile,
               outcome |-> "none"]

\* the journal of a specification that does not follow the content of the
\* files: w tells whether journal.writer is set
Unobserved(w) == [writer |-> w, observed |-> FALSE,
                  files |-> [n \in {"path", "path.new"} |-> NoFile],
                  rot |-> NoRotation]

(* The pool as a record, and back.  events and journaled collect what one *)
(* call sends on txFeed and appends to the journal.                        *)

Pool == [pending |-> pending, queue |-> queue, beats |-> beats, all |-> all,
         locals |-> locals, cur |-> currentState, pnonce |-> pendingState,
         writer |-> journal.writer,
         events |-> <<>>, journaled |-> <<>>, crashed |-> FALSE, io |-> "ok"]

\* the goroutines: two callers of the public methods and the event loop
Threads == {"t1", "t2", "loop"}

\* sync.RWMutex with nobody holding it
Unlocked == [writer |-> "", readers |-> {}]

\* the pool as NewTxPool returns it: Stop not called, the loop goroutine
\* started and counted in pool.wg, the chain-head subscription open
Started == [stop |-> "idle", loop |-> "running", sub |-> TRUE, wg |-> 1,
            during |-> ""]

\* make(chan core.ChainHeadEvent, chainHeadChanSize): nothing sent yet
NoEvents == [buf |-> <<>>, sent |-> <<>>, recv |-> <<>>]

\* no transaction signed, Sender not called
NoSigned == [txs |-> <<>>, last |-> <<>>]

\* a goroutine that is in no call
NoCall == [op |-> "", pc |-> "idle", arg |-> <<>>]

\* a feed with subscribers S on which nothing has been sent
Feed(S) == [sent |-> 0, tasks |-> {}, active |-> <<>>, got |-> [s \in S |-> <<>>]]

\* go pool.txFeed.Send(core.TxPreEvent{tx}), once for each event of a call,
\* in the order of the calls; a send on a feed without subscribers
\* delivers nothing and is not kept
Spawn(f, events) ==
    IF DOMAIN f.got = {} THEN f
    ELSE [f EXCEPT !.tasks = @ \cup {[seq |-> f.sent + i, tx |-> events[i]] :
                                        i \in DOMAIN events},
                   !.sent = @ + Len(events)]

Install(p) ==
    /\ pending' = p.pending
    /\ queue' = p.queue
    /\ beats' = p.beats
    /\ all' = p.all
    /\ locals' = p.locals
    /\ currentState' = p.cur
    /\ pendingState' = p.pnonce
    /\ journal' = [journal EXCEPT
                      !.writer = p.writer,
                      !.files = IF journal.observed
                                THEN [@ EXCEPT !["path"].recs = @ \o p.journaled]
                                ELSE @]
    /\ running' = ~p.crashed
    /\ txFeed' = Spawn(txFeed, p.events)

\* the orders in which a Go map may be iterated
Orders == {s \in [1..Cardinality(Addr) -> Addr] : Range(s) = Addr}

Configs == {[NoLocals |-> FALSE, Journal |-> TRUE, AccountSlots |-> 1,
             GlobalSlots |-> 2, AccountQueue |-> 1, GlobalQueue |-> 1,
             Lifetime |-> 1]}

\* the pool as NewTxPool returns it: reset(nil, current block), an empty
\* journal loaded and rotated
Init ==
    /\ config \in Configs
    /\ pending = <<>>
    /\ queue = <<>>
    /\ beats = <<>>
    /\ all = <<>>
    /\ locals = {}
    /\ currentState = StateAt("G")
    /\ pendingState = StateAt("G").nonce
    /\ head = "G"
    /\ journal = Unobserved(config.Journal /\ ~config.NoLocals)
    /\ now = config.Lifetime + 1
    /\ running = TRUE
    /\ txFeed = Feed({})
    /\ mu = Unlocked
    /\ calls = [t \in Threads |-> NoCall]
    /\ shutdown = Started
    /\ signed = NoSigned
    /\ chainHeadCh = NoEvents

\* a faulty AddLocal: the sender is marked local whatever the configuration
AddLocal_marking(tx) ==
    \E ord \in Orders :
        LET r == addTx(Pool, tx, TRUE, ord)
        IN  running /\ Install(r.p) /\ UNCHANGED <<config, head, now, mu, calls, shutdown, signed, chainHeadCh>>

AddLocal(tx) ==
    \E ord \in Orders :
        LET r == addTx(Pool, tx, ~config.NoLocals, ord)
        IN  running /\ Install(r.p) /\ UNCHANGED <<config, head, now, mu, calls, shutdown, signed, chainHeadCh>>

AddRemote(tx) ==
    \E ord \in Orders :
        LET r == addTx(Pool, tx, FALSE, ord)
        IN  running /\ Install(r.p) /\ UNCHANGED <<config, head, now, mu, calls, shutdown, signed, chainHeadCh>>

\* loop, case ev := <-pool.chainHeadCh
ChainHead(b) ==
    \E ord \in Orders :
        \E r \in {reset(Pool, head, b, ord)} :
            /\ running
            /\ Install(r)
            /\ head' = IF r.crashed THEN head ELSE b
            /\ UNCHANGED <<config, now, mu, calls, shutdown, signed, chainHeadCh>>

RECURSIVE evictAccounts(_, _)
evictAccounts(p, S) ==
    IF S = {} THEN p
    ELSE LET a == CHOOSE x \in S : TRUE
             q == IF a \notin p.locals /\ a \in DOMAIN p.queue
                     /\ now - BeatOf(p, a) > config.Lifetime
                  THEN removeSeq(p, Flatten(p.queue[a]))
                  ELSE p
         IN  evictAccounts(q, S \ {a})

\* loop, case <-evict.C
EvictTick ==
    /\ running
    /\ Install(evictAccounts(Pool, DOMAIN queue))
    /\ UNCHANGED <<config, head, now, mu, calls, shutdown, signed, chainHeadCh>>

\* the transactions the model submits one by one: every well-formed one,
\* and one malformed one for each of the first four checks of validateTx
Submitted ==
    GoodTxs \cup {t \in BadTxs :
                    \/ t.size > MaxTxSize /\ t.amount = <<1>> /\ t.sig = "A"
                    \/ t.size <= MaxTxSize /\ t.amount # <<1>> /\ t.sig = "A"
                    \/ t.size <= MaxTxSize /\ t.amount = <<1>> /\ t.sig = "bad"}

\* the batches the model submits: pairs over a few transactions
BatchTxs == {Tx("A", 0, 1), Tx("A", 1, 1), Tx("B", 0, 1)}

Batches == {<<t1, t2>> : t1 \in BatchTxs, t2 \in BatchTxs}

AddLocals(txs) ==
    \E ord \in Orders :
        LET r == addTxsLocked(Pool, txs, ~config.NoLocals, ord)
        IN  running /\ Install(r.p) /\ UNCHANGED <<config, head, now, mu, calls, shutdown, signed, chainHeadCh>>

AddRemotes(txs) ==
    \E ord \in Orders :
        LET r == addTxsLocked(Pool, txs, FALSE, ord)
        IN  running /\ Install(r.p) /\ UNCHANGED <<config, head, now, mu, calls, shutdown, signed, chainHeadCh>>

Next ==
    \/ \E tx \in Submitted : AddLocal(tx)
    \/ \E tx \in Submitted : AddRemote(tx)
    \/ \E txs \in Batches : AddLocals(txs)
    \/ \E txs \in Batches : AddRemotes(txs)
    \/ \E b \in BlockIds : ChainHead(b)
    \/ EvictTick

Spec == Init /\ [][Next]_vars

-----------------------------------------------------------------------------
(* What the pool holds *)

ListTxs(m, a) == IF a \in DOMAIN m THEN {m[a][n] : n \in DOMAIN m[a]} ELSE {}

\* the transactions held in the pending lists, in the queued lists
PendingTxs(p) == UNION {ListTxs(p.pending, a) : a \in Addr}
QueuedTxs(p)  == UNION {ListTxs(p.queue, a) : a \in Addr}

Hashes(S) == {Hash(t) : t \in S}

-----------------------------------------------------------------------------
(* C1: the hashes in all are exactly the hashes of the transactions held   *)
(* in the pending and queued lists, and every hash in all belongs to a     *)
(* transaction held in exactly one of pending[sender] and queued[sender].  *)
C1_AllIsUnionOfLists ==
    /\ DOMAIN all = Hashes(PendingTxs(Pool) \cup QueuedTxs(Pool))
    /\ \A h \in DOMAIN all :
          LET t == all[h]
          IN  (t \in ListTxs(pending, Sender(t))) # (t \in ListTxs(queue, Sender(t)))

-----------------------------------------------------------------------------
(* C4: when a valid transaction with a new hash is admitted while the      *)
(* sender's pending list holds a transaction at the same nonce, then       *)
(* afterwards pending[sender][nonce] is the new transaction, all holds the *)
(* new hash and no longer the displaced one, and add reports replace.      *)
C4_PendingReplacement ==
    \A tx \in Txs : \A local \in BOOLEAN :
        LET r == add(Pool, tx, local)
            a == Sender(tx)
        IN  (r.err = NoErr /\ overlapsPending(Pool, a, tx)) =>
                /\ r.replace
                /\ r.p.pending[a][tx.nonce] = tx
                /\ Hash(tx) \in DOMAIN r.p.all
                /\ Hash(pending[a][tx.nonce]) \notin DOMAIN r.p.all

-----------------------------------------------------------------------------
(* C5: an admission that returns an error leaves the pool as it was, sends *)
(* no event and journals nothing; in a batch this holds for each rejected  *)
(* element, and the accepted elements are applied all the same.            *)
C5_RejectionChangesNothing ==
    /\ \A tx \in Txs : \A local \in BOOLEAN :
          LET r == add(Pool, tx, local)
          IN  r.err # NoErr =>
                /\ r.p = Pool
                /\ \A ord \in Orders :
                      addTx(Pool, tx, local, ord) = [p |-> Pool, errs |-> <<r.err>>]
    /\ \A txs \in Batches : \A local \in BOOLEAN :
          LET r1 == add(Pool, txs[1], local)
              r2 == add(r1.p, txs[2], local)
          IN  (r1.err # NoErr \/ r2.err # NoErr) =>
                /\ r2.err # NoErr => r2.p = r1.p
                /\ \A ord \in Orders :
                      LET b == addTxsLocked(Pool, txs, local, ord)
                      IN  /\ b.errs = <<r1.err, r2.err>>
                          /\ (r1.err # NoErr /\ r2.err # NoErr) => b.p = Pool
                          /\ (r1.err = NoErr /\ r2.err # NoErr) =>
                                b.p = addTxsLocked(Pool, <<txs[1]>>, local, ord).p
                          /\ (r1.err # NoErr /\ r2.err = NoErr) =>
                                b.p = addTxsLocked(Pool, <<txs[2]>>, local, ord).p

\* a batch whose first element is accepted into the queue and whose second
\* is rejected, on a pool with journaling on
C5_Witness ==
    \E txs \in Batches :
        LET r1 == add(Pool, txs[1], TRUE)
            r2 == add(r1.p, txs[2], TRUE)
        IN  /\ journal.writer
            /\ r1.err = NoErr /\ r2.err = ErrNonceTooLow
            /\ r1.p.journaled = <<txs[1]>>
            /\ r2.p = r1.p

-----------------------------------------------------------------------------
(* C6: validateTx returns the error of the first failing check, in the     *)
(* order size, nil amount, negative amount, sender, nonce, balance.        *)
Checks(tx) ==
    << [fails |-> tx.size > MaxTxSize,  err |-> ErrOversizedData],
       [fails |-> tx.amount = <<>>,     err |-> ErrWrongTransactionAmount],
       [fails |-> tx.amount # <<>> /\ tx.amount[1] < 0, err |-> ErrNegativeValue],
       [fails |-> tx.sig \notin Addr,   err |-> ErrInvalidSender],
       [fails |-> tx.sig \in Addr /\ tx.nonce < currentState.nonce[tx.sig],
                                        err |-> ErrNonceTooLow],
       [fails |-> tx.sig \in Addr /\ tx.amount # <<>>
                     /\ currentState.balance[tx.sig] < tx.amount[1],
                                        err |-> ErrInsufficientFunds] >>

FirstFailure(cs) ==
    IF \E i \in DOMAIN cs : cs[i].fails
    THEN cs[SetMin({i \in DOMAIN cs : cs[i].fails})].err
    ELSE NoErr

C6_ValidationOrder ==
    \A tx \in Txs :
        /\ validateTx(Pool, tx) = FirstFailure(Checks(tx))
        /\ (tx \in GoodTxs /\ tx.nonce = currentState.nonce[tx.sig]
               /\ Cost(tx) = currentState.balance[tx.sig]) =>
                 validateTx(Pool, tx) = NoErr

\* a transaction below the state nonce and unaffordable, one at the state
\* nonce that costs the whole balance, and one that fails three checks
C6_Witness ==
    /\ \E tx \in GoodTxs :
          /\ tx.nonce < currentState.nonce[tx.sig]
          /\ Cost(tx) > currentState.balance[tx.sig]
          /\ validateTx(Pool, tx) = ErrNonceTooLow
    /\ \E tx \in GoodTxs :
          /\ tx.nonce = currentState.nonce[tx.sig]
          /\ Cost(tx) = currentState.balance[tx.sig]
          /\ validateTx(Pool, tx) = NoErr
    /\ \E tx \in BadTxs :
          /\ tx.size > MaxTxSize /\ tx.amount = <<>> /\ tx.sig \notin Addr
          /\ validateTx(Pool, tx) = ErrOversizedData

-----------------------------------------------------------------------------
(* C2: for every (sender, nonce) there is at most one transaction in the   *)
(* union of pending[sender] and queued[sender]: no nonce is present in     *)
(* both lists of one sender.                                               *)
C2_OnePerSenderNonce ==
    \A a \in Addr :
        /\ DOMAIN ListOf(pending, a) \cap DOMAIN ListOf(queue, a) = {}
        /\ \A t \in ListTxs(pending, a) \cup ListTxs(queue, a) : Sender(t) = a

\* a sender with pending and queued transactions, and a transaction at one
\* of its pending nonces whose admission replaces the pending one
C2_Witness ==
    \E a \in Addr : \E tx \in GoodTxs :
        /\ a \in DOMAIN pending /\ a \in DOMAIN queue
        /\ Sender(tx) = a /\ tx.nonce \in DOMAIN pending[a]
        /\ LET r == add(Pool, tx, FALSE)
           IN  /\ r.err = NoErr /\ r.replace
               /\ tx.nonce \notin DOMAIN ListOf(r.p.queue, a)
               /\ r.p.pending[a][tx.nonce] = tx

-----------------------------------------------------------------------------
(* C3: the nonces of every pending[a] form a gap-free run whose first      *)
(* nonce is at most pendingState.nonce(a).                                 *)
GapFree(S) == \A n \in S : \A m \in SetMin(S)..n : m \in S

C3_PendingContiguous ==
    \A a \in DOMAIN pending :
        LET S == DOMAIN pending[a]
        IN  S # {} => GapFree(S) /\ SetMin(S) <= pendingState[a]

\* a reset to a block that includes the first of two pending transactions
\* and leaves the second one pending
C3_Witness ==
    \E a \in DOMAIN pending : \E b \in BlockIds :
        LET r == reset(Pool, head, b, <<"A", "B">>)
        IN  /\ ListLen(pending[a]) >= 2
            /\ StateAt(b).nonce[a] > SetMin(DOMAIN pending[a])
            /\ a \in DOMAIN r.pending
            /\ SetMin(DOMAIN r.pending[a]) = StateAt(b).nonce[a]
            /\ r.pnonce[a] > SetMin(DOMAIN r.pending[a])

-----------------------------------------------------------------------------
(* C7: when an admission leaves in the sender's queue a gap-free run of    *)
(* nonces that starts at pendingState.nonce(sender), and no cap is         *)
(* exceeded, then on return the run is in pending[sender] and not in       *)
(* queued[sender], pendingState.nonce(sender) is the last nonce of the run *)
(* plus one, and what lies behind a remaining gap is still queued.         *)

\* the gap-free run of list l that starts at nonce start
Run(l, start) == {n \in DOMAIN l : n >= start /\ \A m \in start..n : m \in DOMAIN l}

\* promoting run from the queue of s in pool p exceeds none of the caps
WithinCaps(p, s, run) ==
    /\ Count(p.pending) + Cardinality(run) <= config.GlobalSlots
    /\ Count(p.queue) - Cardinality(run) <= config.GlobalQueue
    /\ s \in p.locals \/ ListLen(ListOf(p.queue, s)) - Cardinality(run) <= config.AccountQueue

C7_GapFill ==
    \A tx \in GoodTxs : \A local \in BOOLEAN :
        LET a   == add(Pool, tx, local)
            s   == Sender(tx)
            q   == ListOf(a.p.queue, s)
            run == Run(q, a.p.pnonce[s])
        IN  (a.err = NoErr /\ ~a.replace /\ run # {} /\ WithinCaps(a.p, s, run)) =>
                \A ord \in Orders :
                    LET r == addTx(Pool, tx, local, ord).p
                    IN  /\ \A n \in run : /\ s \in DOMAIN r.pending
                                          /\ n \in DOMAIN r.pending[s]
                                          /\ r.pending[s][n] = q[n]
                                          /\ n \notin DOMAIN ListOf(r.queue, s)
                        /\ r.pnonce[s] = SetMax(run) + 1
                        /\ \A n \in DOMAIN q \ run : /\ s \in DOMAIN r.queue
                                                     /\ n \in DOMAIN r.queue[s]
                                                     /\ r.queue[s][n] = q[n]

\* the admission of the missing nonce in front of a queued transaction
C7_Witness ==
    \E tx \in GoodTxs :
        LET a   == add(Pool, tx, FALSE)
            s   == Sender(tx)
            run == Run(ListOf(a.p.queue, s), a.p.pnonce[s])
        IN  /\ a.err = NoErr /\ ~a.replace
            /\ tx.nonce + 1 \in DOMAIN ListOf(queue, s)
            /\ {tx.nonce, tx.nonce + 1} \subseteq run
            /\ WithinCaps(a.p, s, run)
            /\ {tx.nonce, tx.nonce + 1} \subseteq
                   DOMAIN addTx(Pool, tx, FALSE, <<"A", "B">>).p.pending[s]

-----------------------------------------------------------------------------
(* The pool under caps wide enough for two senders to exceed AccountSlots  *)
(* by different amounts, so that promoteExecutables equalizes the          *)
(* offenders before it reduces them all.                                   *)

CapConfigs == {[NoLocals |-> FALSE, Journal |-> TRUE, AccountSlots |-> 1,
                GlobalSlots |-> 3, AccountQueue |-> 2, GlobalQueue |-> 2,
                Lifetime |-> 1]}

InitCap ==
    /\ config \in CapConfigs
    /\ pending = <<>>
    /\ queue = <<>>
    /\ beats = <<>>
    /\ all = <<>>
    /\ locals = {}
    /\ currentState = StateAt("G")
    /\ pendingState = StateAt("G").nonce
    /\ head = "G"
    /\ journal = Unobserved(config.Journal /\ ~config.NoLocals)
    /\ now = config.Lifetime + 1
    /\ running = TRUE
    /\ txFeed = Feed({})
    /\ mu = Unlocked
    /\ calls = [t \in Threads |-> NoCall]
    /\ shutdown = Started
    /\ signed = NoSigned
    /\ chainHeadCh = NoEvents

\* one transaction for each sender and nonce, and one replacement
CapTxs == {Tx(a, n, 1) : a \in Addr, n \in 0..MaxNonce} \cup {Tx("A", 0, 2)}

NextCap ==
    \/ \E tx \in CapTxs : AddLocal(tx)
    \/ \E tx \in CapTxs : AddRemote(tx)
    \/ \E b \in BlockIds : ChainHead(b)
    \/ EvictTick

SpecCap == InitCap /\ [][NextCap]_vars

(* C10: after promoteExecutables either the pending transactions number at *)
(* most GlobalSlots, or every sender that holds more than AccountSlots     *)
(* pending transactions is local.                                          *)
C10_PendingCap ==
    \/ Count(pending) <= config.GlobalSlots
    \/ \A a \in DOMAIN pending :
          ListLen(pending[a]) > config.AccountSlots => a \in locals

\* an admission whose promotion puts pending over GlobalSlots with two
\* non-local senders over AccountSlots by different amounts
C10_Witness ==
    \E tx \in CapTxs :
        LET a == add(Pool, tx, FALSE)
            s == Sender(tx)
            m == IF a.err = NoErr /\ ~a.replace
                 THEN promoteAccounts(a.p, <<s>>) ELSE Pool
            r == addTx(Pool, tx, FALSE, <<"A", "B">>).p
        IN  /\ a.err = NoErr /\ ~a.replace
            /\ Count(m.pending) > config.GlobalSlots
            /\ \E x, y \in DOMAIN m.pending :
                  /\ isSpammer(m, x) /\ isSpammer(m, y)
                  /\ ListLen(m.pending[x]) > ListLen(m.pending[y])
            /\ Count(r.pending) <= config.GlobalSlots

-----------------------------------------------------------------------------
(* C8: every transaction held in a pending or queued list has a nonce      *)
(* that is at least currentState.nonce(sender).                            *)
C8_NoStaleNonce ==
    \A t \in PendingTxs(Pool) \cup QueuedTxs(Pool) :
        t.nonce >= currentState.nonce[Sender(t)]

\* a reset that raises the nonce of a sender above one of the transactions
\* the pool holds for it, and below another
C8_Witness ==
    \E b \in BlockIds : \E t1, t2 \in PendingTxs(Pool) \cup QueuedTxs(Pool) :
        LET r == reset(Pool, head, b, <<"A", "B">>)
        IN  /\ Sender(t1) = Sender(t2)
            /\ t1.nonce < StateAt(b).nonce[Sender(t1)]
            /\ t2.nonce >= StateAt(b).nonce[Sender(t1)]
            /\ t1 \notin PendingTxs(r) \cup QueuedTxs(r)
            /\ t2 \in PendingTxs(r) \cup QueuedTxs(r)

-----------------------------------------------------------------------------
(* C9: an admission is rejected whenever all holds GlobalSlots +           *)
(* GlobalQueue transactions or more, for local and remote submissions      *)
(* alike, and all never holds more than GlobalSlots + GlobalQueue.         *)
C9_AllBounded ==
    /\ \A tx \in Txs : \A local \in BOOLEAN :
          Cardinality(DOMAIN all) >= config.GlobalSlots + config.GlobalQueue
              => add(Pool, tx, local).err # NoErr
    /\ Cardinality(DOMAIN all) <= config.GlobalSlots + config.GlobalQueue

-----------------------------------------------------------------------------
(* C11: after promoteExecutables either the queued transactions number at  *)
(* most GlobalQueue, or every sender that still holds queued transactions  *)
(* is local; a queued transaction may have been replaced before.           *)
C11_QueueCap ==
    \/ Count(queue) <= config.GlobalQueue
    \/ DOMAIN queue \subseteq locals

-----------------------------------------------------------------------------
(* The pool with a clock: time passes between the calls, so that senders   *)
(* have heartbeats of different ages.                                      *)

MaxTime == 4        \* the clock runs up to MaxTime

TimeConfigs == {[NoLocals |-> FALSE, Journal |-> TRUE, AccountSlots |-> 1,
                 GlobalSlots |-> 2, AccountQueue |-> 2, GlobalQueue |-> 1,
                 Lifetime |-> 1]}

InitTime ==
    /\ config \in TimeConfigs
    /\ pending = <<>>
    /\ queue = <<>>
    /\ beats = <<>>
    /\ all = <<>>
    /\ locals = {}
    /\ currentState = StateAt("G")
    /\ pendingState = StateAt("G").nonce
    /\ head = "G"
    /\ journal = Unobserved(config.Journal /\ ~config.NoLocals)
    /\ now = config.Lifetime + 1
    /\ running = TRUE
    /\ txFeed = Feed({})
    /\ mu = Unlocked
    /\ calls = [t \in Threads |-> NoCall]
    /\ shutdown = Started
    /\ signed = NoSigned
    /\ chainHeadCh = NoEvents

\* time.Now() moves on between two calls
Tick ==
    /\ now < MaxTime
    /\ now' = now + 1
    /\ UNCHANGED <<config, pending, queue, beats, all, locals, currentState,
                   pendingState, head, journal, running, txFeed, mu, calls, shutdown,
                   signed, chainHeadCh>>

\* one transaction for each sender and nonce, and one queued replacement
TimeTxs == {Tx(a, n, 1) : a \in Addr, n \in 0..MaxNonce} \cup {Tx("A", 2, 2)}

TxStatusUnknown == "unknown"

TxStatusQueued == "queued"

TxStatusPending == "pending"

TxStatusIncluded == "included"

\* a faulty status: pending only when the pending list holds this very
\* transaction
statusOf_exact(p, hash) ==
    IF hash \notin DOMAIN p.all THEN TxStatusUnknown
    ELSE IF p.all[hash] \in PendingTxs(p) THEN TxStatusPending
    ELSE TxStatusQueued

\* the body of the loop of Status for one hash
statusOf(p, hash) ==
    IF hash \notin DOMAIN p.all THEN TxStatusUnknown
    ELSE LET tx   == p.all[hash]
             from == Sender(tx)
         IN  IF from \in DOMAIN p.pending /\ tx.nonce \in DOMAIN p.pending[from]
             THEN TxStatusPending
             ELSE TxStatusQueued

\* Status(hashes): the pool it leaves and the statuses it returns
Status(p, hashes) ==
    [p |-> p, status |-> [i \in DOMAIN hashes |-> statusOf(p, hashes[i])]]

\* the hashes Status is asked about, and the lists of them
StatusHashes == {Hash(t) : t \in TimeTxs}

StatusQueries ==
    {<<>>} \cup {<<h>> : h \in StatusHashes}
           \cup {<<h1, h2>> : h1 \in StatusHashes, h2 \in StatusHashes}

StatusCall(hashes) ==
    /\ running
    /\ Install(Status(Pool, hashes).p)
    /\ UNCHANGED <<config, head, now, mu, calls, shutdown, signed, chainHeadCh>>

NextTime ==
    \/ \E hashes \in StatusQueries : StatusCall(hashes)
    \/ \E tx \in TimeTxs : AddLocal(tx)
    \/ \E tx \in TimeTxs : AddRemote(tx)
    \/ \E b \in BlockIds : ChainHead(b)
    \/ EvictTick
    \/ Tick

SpecTime == InitTime /\ [][NextTime]_vars

-----------------------------------------------------------------------------
(* C12: when the global queue cap is enforced, the non-local senders are   *)
(* drained in ascending heartbeat order: no transaction of a sender is     *)
(* dropped while a sender with an older heartbeat still has queued         *)
(* transactions, and a sender that keeps a part of its list loses its      *)
(* highest nonces.                                                         *)

\* the pool of an accepted admission as the queue cap finds it
BeforeQueueCap(tx, local, ord) ==
    capPending(promoteAccounts(add(Pool, tx, local).p, <<Sender(tx)>>), ord)

-----------------------------------------------------------------------------
(* C13: no transaction of a local sender is removed by quota enforcement.  *)
(* An admission removes none of the transactions local senders hold, and a *)
(* reset removes only those that the new state makes stale or              *)
(* unaffordable, however far the pool is over its caps.                    *)

Held(p) == PendingTxs(p) \cup QueuedTxs(p)

C13_LocalsKeptByQuota ==
    /\ \A tx \in GoodTxs : \A local \in BOOLEAN : \A ord \in Orders :
          \A a \in {add(Pool, tx, local)} :
             a.err = NoErr =>
                \A r \in {addTx(Pool, tx, local, ord).p} :
                \A t \in Held(a.p) : Sender(t) \in a.p.locals => t \in Held(r)
    /\ \A b \in BlockIds : \A ord \in Orders :
          \A r \in {reset(Pool, head, b, ord)} :
          \A t \in Held(Pool) :
              ( /\ Sender(t) \in locals
                /\ t.nonce >= StateAt(b).nonce[Sender(t)]
                /\ Cost(t) <= StateAt(b).balance[Sender(t)]
                /\ \A u \in Range(Reinject(head, b).txs) :
                      Sender(u) = Sender(t) => u.nonce # t.nonce )
              => t \in Held(r)

\* a local sender that holds more queued transactions than AccountQueue and
\* GlobalQueue allow, and whose next admission promotes them all, past
\* AccountSlots and GlobalSlots
C13_Witness ==
    \E tx \in GoodTxs :
        LET s == Sender(tx)
            r == addTx(Pool, tx, TRUE, <<"A", "B">>).p
        IN  /\ s \in locals /\ s \in DOMAIN queue
            /\ ListLen(queue[s]) > config.AccountQueue
            /\ Count(queue) > config.GlobalQueue
            /\ add(Pool, tx, TRUE).err = NoErr
            /\ ListLen(ListOf(r.pending, s)) > config.AccountSlots
            /\ Count(r.pending) > config.GlobalSlots
            /\ Held(Pool) \cup {tx} \subseteq Held(r)

-----------------------------------------------------------------------------
(* C14: an evict tick removes every queued transaction of each non-local   *)
(* sender whose heartbeat is older than Lifetime, and nothing else: the    *)
(* queues of local senders and of senders with a younger heartbeat, and    *)
(* all pending lists, are as before.                                       *)

Idle(a) == a \notin locals /\ now - BeatOf(Pool, a) > config.Lifetime

C14_EvictExactly ==
    \A r \in {evictAccounts(Pool, DOMAIN queue)} :
        /\ r.pending = pending
        /\ \A a \in DOMAIN queue :
              IF Idle(a) THEN a \notin DOMAIN r.queue
              ELSE a \in DOMAIN r.queue /\ r.queue[a] = queue[a]

-----------------------------------------------------------------------------
(* C15: beats[a] is the time of the latest activity of a, the admission of *)
(* a transaction into its queue included: after a remote admission that    *)
(* leaves the sender with queued transactions only, the heartbeat of the   *)
(* sender is the time of the admission, and an evict tick that comes       *)
(* before Lifetime has passed removes none of its transactions.            *)
C15_BeatOnEnqueue ==
    \A tx \in TimeTxs : \A ord \in Orders :
        \A r \in {addTx(Pool, tx, FALSE, ord)} :
            LET s == Sender(tx)
            IN  ( /\ r.errs = <<NoErr>>
                  /\ s \in DOMAIN r.p.queue /\ s \notin DOMAIN r.p.pending
                  /\ s \notin r.p.locals )
                => /\ BeatOf(r.p, s) = now
                   /\ evictAccounts(r.p, DOMAIN r.p.queue).queue[s] = r.p.queue[s]

-----------------------------------------------------------------------------
(* The pool on a chain whose database misses blocks and states: every    *)
(* header of Headers may be announced as the new head.                   *)

ChainTxs == {Tx(a, n, 1) : a \in Addr, n \in 0..MaxNonce}

NextChain ==
    \/ \E tx \in ChainTxs : AddLocal(tx)
    \/ \E tx \in ChainTxs : AddRemote(tx)
    \/ \E b \in HeaderIds : ChainHead(b)
    \/ EvictTick

SpecChain == Init /\ [][NextChain]_vars

RECURSIVE Ancestors(_)
Ancestors(b) ==
    IF b \notin HeaderIds THEN {} ELSE {b} \cup Ancestors(Headers[b].parent)

BlockTxs(S) == UNION {Range(Headers[x].txs) : x \in S}

\* the blocks of the old branch and of the new branch down to, and
\* excluding, their common ancestor
Abandoned(old, new) == Ancestors(old) \ Ancestors(new)

Adopted(old, new) == Ancestors(new) \ Ancestors(old)

NeedsRepair(old, new) ==
    /\ old # Headers[new].parent
    /\ Abs(Headers[old].number - Headers[new].number) <= MaxReorgDepth

\* every block the repair reads is in the database
Rooted(old, new) ==
    /\ Ancestors(old) \cap Ancestors(new) # {}
    /\ {old, new} \cup Abandoned(old, new) \cup Adopted(old, new) \subseteq Stored

(* C16: when the head moves between two blocks that are not parent-linked *)
(* and at most 64 apart, and every block and the new state are found, the *)
(* reset offers exactly the transactions of the abandoned blocks that are *)
(* in no adopted block; it offers them as remote transactions and checks  *)
(* them against the new state; whatever the reset adds to the lists is    *)
(* one of them, and a transaction of an adopted block is not in the pool  *)
(* afterwards.                                                            *)
C16_ReorgReinjection ==
    \A b \in HeaderIds : \A ord \in Orders :
        (running /\ NeedsRepair(head, b) /\ Rooted(head, b) /\ b \in HasState) =>
            \A r \in {reset(Pool, head, b, ord)} :
            \A ri \in {Reinject(head, b)} :
                /\ ri.ok /\ ~ri.panic
                /\ Range(ri.txs) = BlockTxs(Abandoned(head, b)) \ BlockTxs(Adopted(head, b))
                /\ Held(r) \ Held(Pool) \subseteq Range(ri.txs)
                /\ r.locals = locals
                /\ r.cur = StateAt(b)
                /\ \A t \in Range(ri.txs) :
                       validateTx([Pool EXCEPT !.cur = StateAt(b)], t) # NoErr
                           => t \notin Held(r)
                /\ \A t \in BlockTxs(Adopted(head, b)) : t \notin Held(r)

\* a sibling takes over: a transaction of the old block alone comes back
\* into the pool, one of the new block alone does not
C16_Witness ==
    \E b \in HeaderIds : \E ord \in Orders :
        /\ running /\ NeedsRepair(head, b) /\ Rooted(head, b) /\ b \in HasState
        /\ Headers[b].number = Headers[head].number
        /\ \E t \in BlockTxs(Abandoned(head, b)) \ BlockTxs(Adopted(head, b)) :
               /\ t \notin Held(Pool)
               /\ t \in Held(reset(Pool, head, b, ord))
        /\ BlockTxs(Abandoned(head, b)) \cap BlockTxs(Adopted(head, b)) # {}
        /\ BlockTxs(Adopted(head, b)) \ BlockTxs(Abandoned(head, b)) # {}

(* C17: when a reset cannot find a block it needs, the old head's block,  *)
(* the new head's block or an ancestor on either branch, or cannot load   *)
(* the state of the new head, it leaves the pool as it was and the pool   *)
(* keeps operating.                                                       *)
C17_AbortLeavesPool ==
    \A b \in HeaderIds : \A ord \in Orders :
        (/\ running
         /\ \/ NeedsRepair(head, b) /\ ~Rooted(head, b)
            \/ b \notin HasState) =>
            reset(Pool, head, b, ord) = Pool

\* how many times tx is sent on txFeed by one call
Sent(events, tx) == Cardinality({i \in DOMAIN events : events[i] = tx})

(* C18: a call sends one new-transaction event for every transaction it  *)
(* places into a pending list, by promotion or by replacing a pending    *)
(* transaction directly, and none for a transaction it rejects or only   *)
(* enqueues.                                                              *)
C18_EventPerPlacement ==
    \A tx \in Submitted : \A local \in BOOLEAN : \A ord \in Orders :
        \A r \in {addTx(Pool, tx, local, ord)} :
            /\ \A t \in PendingTxs(r.p) \ PendingTxs(Pool) : Sent(r.p.events, t) = 1
            /\ \A t \in Txs : Sent(r.p.events, t) <= 1
            /\ r.errs # <<NoErr>> => r.p.events = <<>>
            /\ tx \in QueuedTxs(r.p) => Sent(r.p.events, tx) = 0

-----------------------------------------------------------------------------
(* The event feed: every event is sent by a goroutine of its own.  A send *)
(* takes the feed's send lock, hands the event to every subscriber and    *)
(* releases the lock; the goroutines are scheduled in any order.          *)

Subscribers == {"s1", "s2"}

FeedConfigs == {[NoLocals |-> FALSE, Journal |-> FALSE, AccountSlots |-> 8,
                 GlobalSlots |-> 8, AccountQueue |-> 8, GlobalQueue |-> 8,
                 Lifetime |-> 1]}

InitFeed ==
    /\ config \in FeedConfigs
    /\ pending = <<>>
    /\ queue = <<>>
    /\ beats = <<>>
    /\ all = <<>>
    /\ locals = {}
    /\ currentState = StateAt("G")
    /\ pendingState = StateAt("G").nonce
    /\ head = "G"
    /\ journal = Unobserved(FALSE)
    /\ now = config.Lifetime + 1
    /\ running = TRUE
    /\ txFeed = Feed(Subscribers)
    /\ mu = Unlocked
    /\ calls = [t \in Threads |-> NoCall]
    /\ shutdown = Started
    /\ signed = NoSigned
    /\ chainHeadCh = NoEvents

FeedTxs == {Tx("A", n, 1) : n \in 0..MaxNonce} \cup {Tx("B", 0, 1)}

\* a spawned goroutine enters Feed.Send
StartSend(t) ==
    /\ txFeed.active = <<>>
    /\ t \in txFeed.tasks
    /\ txFeed' = [txFeed EXCEPT !.tasks = @ \ {t},
                                !.active = <<[task |-> t, todo |-> Subscribers]>>]
    /\ UNCHANGED <<config, pending, queue, beats, all, locals, currentState,
                   pendingState, head, journal, now, running, mu, calls, shutdown,
                   signed, chainHeadCh>>

\* the running send hands its event to one more subscriber
Deliver(s) ==
    /\ txFeed.active # <<>>
    /\ s \in txFeed.active[1].todo
    /\ txFeed' = [txFeed EXCEPT
                    !.got[s] = Append(@, txFeed.active[1].task),
                    !.active = IF txFeed.active[1].todo = {s} THEN <<>>
                               ELSE <<[@[1] EXCEPT !.todo = @ \ {s}]>>]
    /\ UNCHANGED <<config, pending, queue, beats, all, locals, currentState,
                   pendingState, head, journal, now, running, mu, calls, shutdown,
                   signed, chainHeadCh>>

NextFeed ==
    \/ \E tx \in FeedTxs : AddRemote(tx)
    \/ \E t \in txFeed.tasks : StartSend(t)
    \/ \E s \in Subscribers : Deliver(s)

SpecFeed == InitFeed /\ [][NextFeed]_vars

(* C19: every subscriber receives the events in the order in which the   *)
(* pool emitted them.                                                     *)
C19_EmissionOrder ==
    \A s \in DOMAIN txFeed.got :
        \A i, j \in DOMAIN txFeed.got[s] :
            i < j => txFeed.got[s][i].seq < txFeed.got[s][j].seq

-----------------------------------------------------------------------------
(* The pool's lock.  Every public call and every handler of the loop is   *)
(* taken apart into the acquisition of pool.mu, the body that reads or    *)
(* writes the pool, and the release; addTx is taken apart further into    *)
(* add and promoteExecutables, between which the pool is half updated.    *)

PublicOps == {"AddLocal", "AddRemote", "AddLocals", "AddRemotes", "Pending",
              "Content", "Stats", "State", "Get", "Status"}

LoopOps == {"chainHead", "report", "evict", "journal"}

OpsOf(t) == IF t = "loop" THEN LoopOps ELSE PublicOps

\* a faulty locking: every call takes the read lock
LockOf_read(op) == "RLock"

\* pool.mu.Lock() or pool.mu.RLock() at the head of each call
LockOf(op) ==
    IF op \in {"State", "Stats", "Get", "Status", "report"} THEN "RLock"
    ELSE "Lock"

\* the calls that assign to pending, queue, all, beats, locals,
\* currentState or pendingState; the others only read them
Mutates(op) ==
    op \in {"AddLocal", "AddRemote", "AddLocals", "AddRemotes", "chainHead", "evict"}

LockTxs == {Tx("A", 0, 1), Tx("A", 1, 1)}

LockBatches == {<<Tx("A", 0, 1), Tx("B", 0, 1)>>}

LockBlocks == {"G", "X1"}

ArgsOf(op) ==
    IF op \in {"AddLocal", "AddRemote"} THEN LockTxs
    ELSE IF op \in {"AddLocals", "AddRemotes"} THEN LockBatches
    ELSE IF op = "chainHead" THEN LockBlocks
    ELSE {<<>>}

\* pool.mu.Lock() / pool.mu.RLock(): blocks until the lock can be taken
Lock(t, op, arg) ==
    /\ running
    /\ t = "loop" => shutdown.loop = "running"
    /\ calls[t].pc = "idle"
    /\ mu.writer = ""
    /\ LockOf(op) = "Lock" => mu.readers = {}
    /\ mu' = IF LockOf(op) = "Lock" THEN [mu EXCEPT !.writer = t]
             ELSE [mu EXCEPT !.readers = @ \cup {t}]
    /\ calls' = [calls EXCEPT ![t] = [op |-> op, pc |-> "held", arg |-> arg]]
    /\ UNCHANGED <<config, pending, queue, beats, all, locals, currentState,
                   pendingState, head, journal, now, running, txFeed, shutdown,
                   signed, chainHeadCh>>

\* addTx up to the return of pool.add
BodyAdd(t) ==
    /\ calls[t].pc = "held"
    /\ calls[t].op \in {"AddLocal", "AddRemote"}
    /\ \E r \in {add(Pool, calls[t].arg, calls[t].op = "AddLocal" /\ ~config.NoLocals)} :
           /\ Install(r.p)
           /\ calls' = [calls EXCEPT ![t].pc =
                           IF r.err = NoErr /\ ~r.replace THEN "mid" ELSE "done"]
    /\ UNCHANGED <<config, head, now, mu, shutdown, signed, chainHeadCh>>

\* addTx from pool.promoteExecutables on
BodyPromote(t) ==
    /\ calls[t].pc = "mid"
    /\ \E ord \in Orders :
           Install(promoteExecutables(Pool, <<Sender(calls[t].arg)>>, ord))
    /\ calls' = [calls EXCEPT ![t].pc = "done"]
    /\ UNCHANGED <<config, head, now, mu, shutdown, signed, chainHeadCh>>

BodyBatch(t) ==
    /\ calls[t].pc = "held"
    /\ calls[t].op \in {"AddLocals", "AddRemotes"}
    /\ \E ord \in Orders :
           Install(addTxsLocked(Pool, calls[t].arg,
                                calls[t].op = "AddLocals" /\ ~config.NoLocals, ord).p)
    /\ calls' = [calls EXCEPT ![t].pc = "done"]
    /\ UNCHANGED <<config, head, now, mu, shutdown, signed, chainHeadCh>>

\* a faulty loop: head = ev.Block is left out
BodyReset_keepHead(t) ==
    /\ calls[t].pc = "held"
    /\ calls[t].op = "chainHead"
    /\ \E ord \in Orders : Install(reset(Pool, head, calls[t].arg, ord))
    /\ calls' = [calls EXCEPT ![t].pc = "done"]
    /\ UNCHANGED <<config, head, now, mu, shutdown, signed, chainHeadCh>>

\* the chain-head case of the loop: pool.reset(head.Header(),
\* ev.Block.Header()) and head = ev.Block
BodyReset(t) ==
    /\ calls[t].pc = "held"
    /\ calls[t].op = "chainHead"
    /\ \E ord \in Orders :
           \E r \in {reset(Pool, head, calls[t].arg, ord)} :
               /\ Install(r)
               /\ head' = IF r.crashed THEN head ELSE calls[t].arg
    /\ calls' = [calls EXCEPT ![t].pc = "done"]
    /\ UNCHANGED <<config, now, mu, shutdown, signed, chainHeadCh>>

BodyEvict(t) ==
    /\ calls[t].pc = "held"
    /\ calls[t].op = "evict"
    /\ Install(evictAccounts(Pool, DOMAIN queue))
    /\ calls' = [calls EXCEPT ![t].pc = "done"]
    /\ UNCHANGED <<config, head, now, mu, shutdown, signed, chainHeadCh>>

\* the bodies that only read: Pending, Content, Stats, State, Get, Status,
\* the report handler's stats() and the journal handler's local()
BodyRead(t) ==
    /\ calls[t].pc = "held"
    /\ ~Mutates(calls[t].op)
    /\ calls' = [calls EXCEPT ![t].pc = "done"]
    /\ UNCHANGED <<config, pending, queue, beats, all, locals, currentState,
                   pendingState, head, journal, now, running, txFeed, mu, shutdown,
                   signed, chainHeadCh>>

\* pool.mu.Unlock() / pool.mu.RUnlock()
Unlock(t) ==
    /\ calls[t].pc = "done"
    /\ mu' = [writer |-> IF mu.writer = t THEN "" ELSE mu.writer,
              readers |-> mu.readers \ {t}]
    /\ calls' = [calls EXCEPT ![t] = NoCall]
    /\ UNCHANGED <<config, pending, queue, beats, all, locals, currentState,
                   pendingState, head, journal, now, running, txFeed, shutdown,
                   signed, chainHeadCh>>

NextLock ==
    \/ \E t \in Threads : \E op \in OpsOf(t) : \E arg \in ArgsOf(op) : Lock(t, op, arg)
    \/ \E t \in Threads : BodyAdd(t)
    \/ \E t \in Threads : BodyPromote(t)
    \/ \E t \in Threads : BodyBatch(t)
    \/ \E t \in Threads : BodyReset(t)
    \/ \E t \in Threads : BodyEvict(t)
    \/ \E t \in Threads : BodyRead(t)
    \/ \E t \in Threads : Unlock(t)

SpecLock == Init /\ [][NextLock]_vars

\* the goroutine is between the acquisition and the release of pool.mu
Inside(t) == calls[t].pc # "idle"

(* C20: whenever a call or a handler of the loop is in its body, it holds *)
(* the write lock if it writes the pool's state and the read or the write *)
(* lock if it reads it; so no two writing calls are in their bodies       *)
(* together, and no reading call is in its body while a writing call is.  *)
C20_LockDiscipline ==
    /\ \A t \in Threads :
           Inside(t) => IF Mutates(calls[t].op) THEN mu.writer = t
                        ELSE t \in mu.readers \/ mu.writer = t
    /\ mu.writer # "" => mu.readers = {}
    /\ \A t, u \in Threads :
           (t # u /\ Inside(t) /\ Mutates(calls[t].op)) => ~Inside(u)

\* an AddRemote has enqueued an executable transaction and not yet promoted
\* it, while a second call and the loop wait for the lock
C20_Witness ==
    \E t \in Threads :
        /\ calls[t].pc = "mid"
        /\ mu.writer = t
        /\ calls[t].arg \in QueuedTxs(Pool)
        /\ calls[t].arg.nonce = pendingState[Sender(calls[t].arg)]

-----------------------------------------------------------------------------
(* Stop.  The loop goroutine leaves its select through the case of the    *)
(* subscription's error channel, which Unsubscribe closes; its deferred   *)
(* pool.wg.Done() lets Stop's pool.wg.Wait() return.                      *)

\* a faulty Stop: pool.wg.Wait() does not wait
WaitDone_nowait(s) == TRUE

\* pool.wg.Wait() returns
WaitDone(s) == s.wg = 0

\* pool.scope.Close()
StopScope ==
    /\ shutdown.stop = "idle"
    /\ shutdown' = [shutdown EXCEPT !.stop = "scope"]
    /\ UNCHANGED <<config, pending, queue, beats, all, locals, currentState,
                   pendingState, head, journal, now, running, txFeed, mu, calls,
                   signed, chainHeadCh>>

\* pool.chainHeadSub.Unsubscribe(); during records the handler the loop
\* is in at this moment
StopUnsubscribe ==
    /\ shutdown.stop = "scope"
    /\ shutdown' = [shutdown EXCEPT !.stop = "unsub", !.sub = FALSE,
                                    !.during = calls["loop"].op]
    /\ UNCHANGED <<config, pending, queue, beats, all, locals, currentState,
                   pendingState, head, journal, now, running, txFeed, mu, calls,
                   signed, chainHeadCh>>

\* pool.wg.Wait()
StopWait ==
    /\ shutdown.stop = "unsub"
    /\ WaitDone(shutdown)
    /\ shutdown' = [shutdown EXCEPT !.stop = "waited"]
    /\ UNCHANGED <<config, pending, queue, beats, all, locals, currentState,
                   pendingState, head, journal, now, running, txFeed, mu, calls,
                   signed, chainHeadCh>>

\* pool.journal.close(), and Stop returns
StopClose ==
    /\ shutdown.stop = "waited"
    /\ shutdown' = [shutdown EXCEPT !.stop = "returned"]
    /\ journal' = [journal EXCEPT !.writer = FALSE]
    /\ UNCHANGED <<config, pending, queue, beats, all, locals, currentState,
                   pendingState, head, now, running, txFeed, mu, calls,
                   signed, chainHeadCh>>

\* loop, case <-pool.chainHeadSub.Err(): return, with the deferred
\* pool.wg.Done()
LoopExit ==
    /\ shutdown.loop = "running"
    /\ calls["loop"].pc = "idle"
    /\ ~shutdown.sub
    /\ shutdown' = [shutdown EXCEPT !.loop = "exited", !.wg = @ - 1]
    /\ UNCHANGED <<config, pending, queue, beats, all, locals, currentState,
                   pendingState, head, journal, now, running, txFeed, mu, calls,
                   signed, chainHeadCh>>

\* the calls that run beside Stop: the four handlers of the loop, and one
\* caller that adds transactions and asks for the stats
StopOps(t) ==
    IF t = "loop" THEN LoopOps
    ELSE IF t = "t1" THEN {"AddRemote", "Stats"}
    ELSE {}

\* the steps of the loop inside a handler
LoopStep ==
    \/ BodyReset("loop")
    \/ BodyEvict("loop")
    \/ BodyRead("loop")
    \/ Unlock("loop")

NextStop ==
    \/ \E t \in Threads : \E op \in StopOps(t) : \E arg \in ArgsOf(op) : Lock(t, op, arg)
    \/ BodyAdd("t1")
    \/ BodyPromote("t1")
    \/ BodyRead("t1")
    \/ Unlock("t1")
    \/ LoopStep
    \/ StopScope
    \/ StopUnsubscribe
    \/ StopWait
    \/ StopClose
    \/ LoopExit

SpecStop == Init /\ [][NextStop]_vars

\* the loop is between the acquisition and the release of the lock
LoopBusy == calls["loop"].pc \in {"held", "done"}

\* Stop goes on once it is called; the select of the loop, which picks at
\* random among its ready cases, picks the closed error channel in the
\* end; and the loop leaves every handler it enters: a step of LoopStep
\* is enabled whenever LoopBusy holds, so that weak fairness of LoopStep
\* is the loop being outside its handlers again and again
FairStop ==
    /\ SpecStop
    /\ []<>(~LoopBusy)
    /\ WF_vars(StopUnsubscribe \/ StopWait \/ StopClose)
    /\ SF_vars(LoopExit)

(* C21: once Stop is called it returns; it returns, and the journal is    *)
(* closed, only after the loop has exited, and from then on the loop      *)
(* takes no step: no reset, no eviction, no rotation.                     *)
C21_StopReturns ==
    /\ (shutdown.stop # "idle") ~> (shutdown.stop = "returned")
    /\ [](shutdown.stop \in {"waited", "returned"} =>
              shutdown.loop = "exited" /\ calls["loop"] = NoCall)
    /\ [][shutdown.stop \in {"waited", "returned"} =>
              calls'["loop"] = calls["loop"]]_vars

\* Stop has returned although the loop was handling a chain-head event
\* when the subscription was cancelled
C21_Witness ==
    /\ shutdown.stop = "returned"
    /\ shutdown.during = "chainHead"
    /\ ~journal.writer

(* C22: Status returns one status for each hash, in the order of the      *)
(* hashes: unknown exactly when the hash is not in all, pending exactly   *)
(* when it is in all and the pending list of the transaction's sender     *)
(* holds a transaction at its nonce, queued otherwise; never included;    *)
(* and the pool is left as it was.                                        *)
C22_Status ==
    \A hashes \in StatusQueries :
        \A r \in {Status(Pool, hashes)} :
            /\ r.p = Pool
            /\ DOMAIN r.status = DOMAIN hashes
            /\ \A i \in DOMAIN hashes :
                   /\ r.status[i] # TxStatusIncluded
                   /\ r.status[i] = TxStatusUnknown <=> hashes[i] \notin DOMAIN all
                   /\ r.status[i] = TxStatusPending <=>
                          /\ hashes[i] \in DOMAIN all
                          /\ \E t \in PendingTxs(Pool) :
                                 /\ Sender(t) = Sender(all[hashes[i]])
                                 /\ t.nonce = all[hashes[i]].nonce
                   /\ r.status[i] = TxStatusQueued <=>
                          /\ hashes[i] \in DOMAIN all
                          /\ ~\E t \in PendingTxs(Pool) :
                                 /\ Sender(t) = Sender(all[hashes[i]])
                                 /\ t.nonce = all[hashes[i]].nonce

\* one call answers pending for a hash whose transaction was replaced in
\* the pending list, queued for a queued one and unknown for a third
C22_Witness ==
    \E h1, h2, h3 \in StatusHashes :
        /\ Status(Pool, <<h1, h2, h3>>).status =
               <<TxStatusPending, TxStatusQueued, TxStatusUnknown>>
        /\ all[h1] \notin PendingTxs(Pool)
        /\ all[h2] \in QueuedTxs(Pool)

-----------------------------------------------------------------------------
(* The journal on disk.  NewTxPool loads the file at path and rotates it; *)
(* afterwards admissions append to it and the journal tick rotates it.    *)
(* rotate is taken step by step; a write can fail or be torn, every other *)
(* file operation can fail, and the process can crash between two steps.  *)

JournalConfigs == {[NoLocals |-> FALSE, Journal |-> TRUE, AccountSlots |-> 1,
                    GlobalSlots |-> 2, AccountQueue |-> 1, GlobalQueue |-> 1,
                    Lifetime |-> 1]}

JournalTxs == {Tx("A", n, 1) : n \in 0..(MaxNonce - 1)} \cup {Tx("B", 0, 1)}

\* the records a journal file may hold at start: transactions, one of them
\* with a signature that does not verify, and bytes that do not decode
JournalRecs ==
    {Tx("A", 0, 1), Tx("A", 1, 1), Junk}
        \cup {t \in BadTxs : t.size <= MaxTxSize /\ t.amount = <<1>> /\ t.sig = "bad"
                             /\ t.nonce = 0}

JournalFiles ==
    {NoFile} \cup {[exists |-> TRUE, recs |-> r] :
                     r \in {<<>>} \cup {<<a>> : a \in JournalRecs}
                                  \cup {<<a, b>> : a \in JournalRecs, b \in JournalRecs}}

InitJournal ==
    /\ config \in JournalConfigs
    /\ pending = <<>>
    /\ queue = <<>>
    /\ beats = <<>>
    /\ all = <<>>
    /\ locals = {}
    /\ currentState = StateAt("G")
    /\ pendingState = StateAt("G").nonce
    /\ head = "G"
    /\ \E f \in JournalFiles :
           journal = [writer |-> FALSE, observed |-> TRUE,
                      files |-> [n \in {"path", "path.new"} |->
                                    IF n = "path" THEN f ELSE NoFile],
                      rot |-> [NoRotation EXCEPT !.pc = "load"]]
    /\ now = config.Lifetime + 1
    /\ running = TRUE
    /\ txFeed = Feed({})
    /\ mu = Unlocked
    /\ calls = [t \in Threads |-> NoCall]
    /\ shutdown = Started
    /\ signed = NoSigned
    /\ chainHeadCh = NoEvents

ErrDecode == "decode error"

\* how many records beyond the one it decodes a call of msgp.Decode takes
\* from the file: load calls msgp.Decode(input, tx) with the file itself in
\* every round, each call reads through a buffered reader of its own, and
\* what that reader has read ahead is gone when the call returns
ReadAheads == {0, 1}

\* the file from its n+1st record on
Skip(recs, n) == SubSeq(recs, n + 1, Len(recs))

RECURSIVE loadEach(_, _, _, _)
\* the loop of journal.load: s is [p, injected, dropped, err]
loadEach(s, recs, ord, ahead) ==
    IF recs = <<>> THEN s
    ELSE IF Head(recs) = Junk THEN [s EXCEPT !.err = ErrDecode]
    ELSE LET r == addTx(s.p, Head(recs), ~config.NoLocals, ord)
         IN  loadEach([s EXCEPT !.p = r.p,
                                !.injected = Append(@, Head(recs)),
                                !.dropped = IF r.errs = <<NoErr>> THEN @ ELSE @ + 1],
                      Skip(Tail(recs), ahead), ord, ahead)

\* journal.load(pool.AddLocal): nothing when the file does not exist;
\* otherwise the writer is the null sink while the records are injected
\* and nil afterwards
load(p, file, ord, ahead) ==
    IF ~file.exists
    THEN [p |-> p, injected |-> <<>>, dropped |-> 0, err |-> NoErr]
    ELSE LET r == loadEach([p |-> [p EXCEPT !.writer = TRUE], injected |-> <<>>,
                            dropped |-> 0, err |-> NoErr], file.recs, ord, ahead)
         IN  [r EXCEPT !.p = [r.p EXCEPT !.writer = FALSE, !.journaled = <<>>]]

RECURSIVE local(_, _)
\* pool.local() as journal.rotate writes it: for every local account, in
\* the order of the maps, its pending and then its queued transactions
local(p, ord) ==
    IF ord = <<>> THEN <<>>
    ELSE (IF Head(ord) \in p.locals
          THEN Flatten(ListOf(p.pending, Head(ord))) \o Flatten(ListOf(p.queue, Head(ord)))
          ELSE <<>>) \o local(p, Tail(ord))

\* NewTxPool, the call of journal.load
Load ==
    /\ running
    /\ journal.rot.pc = "load"
    /\ \E ord \in Orders : \E ahead \in ReadAheads :
           \E r \in {load(Pool, journal.files["path"], ord, ahead)} :
               /\ pending' = r.p.pending
               /\ queue' = r.p.queue
               /\ beats' = r.p.beats
               /\ all' = r.p.all
               /\ locals' = r.p.locals
               /\ pendingState' = r.p.pnonce
               /\ journal' = [journal EXCEPT !.writer = r.p.writer, !.rot.pc = "boot"]
    /\ UNCHANGED <<config, currentState, head, now, running, txFeed, mu, calls,
                   shutdown, signed, chainHeadCh>>

\* a faulty rotate: the snapshot is written over the journal itself
ReplacementOf_inPlace(name) == name

\* journal.path + ".new"
ReplacementOf(name) == "path.new"

\* what is left unchanged by a step of rotate
RotateFrame ==
    UNCHANGED <<config, pending, queue, beats, all, locals, currentState,
                pendingState, head, now, running, txFeed, mu, calls, shutdown,
                signed, chainHeadCh>>

\* rotate is entered, from NewTxPool or from the journal tick of the loop,
\* with the snapshot pool.local(); a pool without a journal (locals are
\* disabled or no path is configured) skips it
RotateBegin ==
    /\ running
    /\ journal.rot.pc \in {"boot", "idle"}
    /\ IF config.Journal /\ ~config.NoLocals
       THEN \E ord \in Orders :
                journal' = [journal EXCEPT !.rot =
                               [pc |-> "close", snapshot |-> local(Pool, ord),
                                left |-> local(Pool, ord), pre |-> journal.files["path"],
                                outcome |-> "none"]]
       ELSE UNCHANGED journal
    /\ RotateFrame

\* journal.writer.Close(), when a writer is set
RotClose(ok) ==
    /\ running
    /\ journal.rot.pc = "close"
    /\ journal' = IF ~journal.writer THEN [journal EXCEPT !.rot.pc = "open"]
                  ELSE IF ok THEN [journal EXCEPT !.writer = FALSE, !.rot.pc = "open"]
                  ELSE [journal EXCEPT !.rot.pc = "return", !.rot.outcome = "failed"]
    /\ RotateFrame

\* os.OpenFile(journal.path+".new", O_WRONLY|O_CREATE|O_TRUNC)
RotOpenNew(ok) ==
    /\ running
    /\ journal.rot.pc = "open"
    /\ journal' = IF ok
                  THEN [journal EXCEPT !.files[ReplacementOf("path")] =
                                           [exists |-> TRUE, recs |-> <<>>],
                                       !.rot.pc = "write"]
                  ELSE [journal EXCEPT !.rot.pc = "return", !.rot.outcome = "failed"]
    /\ RotateFrame

\* msgp.Encode(replacement, tx) for the next transaction of the snapshot
RotEncode(io) ==
    /\ running
    /\ journal.rot.pc = "write"
    /\ journal.rot.left # <<>>
    /\ journal' = [journal EXCEPT
                      !.files[ReplacementOf("path")].recs =
                          @ \o Encode(io, Head(journal.rot.left)),
                      !.rot.left = IF io = "ok" THEN Tail(@) ELSE @,
                      !.rot.pc = IF io = "ok" THEN "write" ELSE "return",
                      !.rot.outcome = IF io = "ok" THEN "none" ELSE "failed"]
    /\ RotateFrame

\* replacement.Close() after the last transaction
RotCloseNew ==
    /\ running
    /\ journal.rot.pc = "write"
    /\ journal.rot.left = <<>>
    /\ journal' = [journal EXCEPT !.rot.pc = "rename"]
    /\ RotateFrame

\* os.Rename(journal.path+".new", journal.path)
RotRename(ok) ==
    /\ running
    /\ journal.rot.pc = "rename"
    /\ journal' = IF ok
                  THEN [journal EXCEPT
                           !.files = [n \in DOMAIN @ |->
                                        IF n = "path" THEN @[ReplacementOf("path")]
                                        ELSE IF n = ReplacementOf("path") THEN NoFile
                                        ELSE @[n]],
                           !.rot.pc = "reopen"]
                  ELSE [journal EXCEPT !.rot.pc = "return", !.rot.outcome = "failed"]
    /\ RotateFrame

\* os.OpenFile(journal.path, O_WRONLY|O_APPEND) and journal.writer = sink
RotReopen(ok) ==
    /\ running
    /\ journal.rot.pc = "reopen"
    /\ journal' = IF ok
                  THEN [journal EXCEPT !.writer = TRUE, !.rot.pc = "return",
                                       !.rot.outcome = "ok"]
                  ELSE [journal EXCEPT !.rot.pc = "return", !.rot.outcome = "failed"]
    /\ RotateFrame

\* rotate returns to NewTxPool or to the loop
RotReturn ==
    /\ running
    /\ journal.rot.pc = "return"
    /\ journal' = [journal EXCEPT !.rot.pc = "idle"]
    /\ RotateFrame

\* the process dies
Crash ==
    /\ running
    /\ running' = FALSE
    /\ UNCHANGED <<config, pending, queue, beats, all, locals, currentState,
                   pendingState, head, journal, now, txFeed, mu, calls, shutdown,
                   signed, chainHeadCh>>

\* AddLocal and AddRemote once the pool is constructed, under the outcome
\* io of the writes to the journal
AddLocalIO(tx, io) ==
    /\ running
    /\ journal.rot.pc = "idle"
    /\ \E ord \in Orders :
           Install(addTx([Pool EXCEPT !.io = io], tx, ~config.NoLocals, ord).p)
    /\ UNCHANGED <<config, head, now, mu, calls, shutdown, signed, chainHeadCh>>

AddRemoteIO(tx, io) ==
    /\ running
    /\ journal.rot.pc = "idle"
    /\ \E ord \in Orders :
           Install(addTx([Pool EXCEPT !.io = io], tx, FALSE, ord).p)
    /\ UNCHANGED <<config, head, now, mu, calls, shutdown, signed, chainHeadCh>>

NextJournal ==
    \/ Load
    \/ RotateBegin
    \/ \E ok \in BOOLEAN : RotClose(ok)
    \/ \E ok \in BOOLEAN : RotOpenNew(ok)
    \/ \E io \in IOs : RotEncode(io)
    \/ RotCloseNew
    \/ \E ok \in BOOLEAN : RotRename(ok)
    \/ \E ok \in BOOLEAN : RotReopen(ok)
    \/ RotReturn
    \/ Crash
    \/ \E tx \in JournalTxs : \E io \in IOs : AddLocalIO(tx, io)
    \/ \E tx \in JournalTxs : \E io \in IOs : AddRemoteIO(tx, io)

SpecJournal == InitJournal /\ [][NextJournal]_vars

\* the same without failures: every file operation succeeds
NextJournalOk ==
    \/ Load
    \/ RotateBegin
    \/ RotClose(TRUE)
    \/ RotOpenNew(TRUE)
    \/ RotEncode("ok")
    \/ RotCloseNew
    \/ RotRename(TRUE)
    \/ RotReopen(TRUE)
    \/ RotReturn
    \/ \E tx \in JournalTxs : AddLocalIO(tx, "ok")
    \/ \E tx \in JournalTxs : AddRemoteIO(tx, "ok")

SpecJournalOk == InitJournal /\ [][NextJournalOk]_vars

\* rotate is between its first and its last statement
Rotating == journal.rot.pc \notin {"load", "boot", "idle"}

\* the file that holds exactly the transactions of the snapshot
SnapshotFile == [exists |-> TRUE, recs |-> journal.rot.snapshot]

(* C23: at every step of rotate, whether it goes on, fails or the process *)
(* dies there, the file at path is the journal as it was before the       *)
(* rotation or the whole snapshot; when rotate returns without an error   *)
(* the file holds exactly the snapshot and the writer is set.             *)
C23_RotateAtomic ==
    Rotating =>
        /\ journal.files["path"] \in {journal.rot.pre, SnapshotFile}
        /\ journal.rot.outcome = "ok" =>
               journal.files["path"] = SnapshotFile /\ journal.writer

\* rotate has written the first of two transactions to the replacement
\* while the journal still holds something else
C23_Witness ==
    /\ journal.rot.pc = "write"
    /\ Len(journal.rot.snapshot) = 2
    /\ Len(journal.rot.left) = 1
    /\ journal.rot.pre.exists
    /\ journal.rot.pre.recs # <<>>
    /\ journal.rot.pre # SnapshotFile

RECURSIVE DecodablePrefix(_)
\* the records before the first one that does not decode
DecodablePrefix(recs) ==
    IF recs = <<>> \/ Head(recs) = Junk THEN <<>>
    ELSE <<Head(recs)>> \o DecodablePrefix(Tail(recs))

RECURSIVE InjectAll(_, _, _)
\* AddLocal for one transaction after the other, whatever each returns
InjectAll(p, txs, ord) ==
    IF txs = <<>> THEN p
    ELSE InjectAll(addTx(p, Head(txs), ~config.NoLocals, ord).p, Tail(txs), ord)

(* C24: load hands every record before the first undecodable one to the   *)
(* injector, once and in the order of the file, whether or not the pool   *)
(* accepts it; it reports the decoding error, or none at the end of the   *)
(* file; the pool holds what the injections before the failure left in    *)
(* it; nothing is written to the journal; a file that does not exist      *)
(* injects nothing and is no error.                                       *)
C24_Load ==
    journal.rot.pc = "load" =>
        \A ord \in Orders : \A ahead \in ReadAheads :
            \A f \in {journal.files["path"]} :
            \A r \in {load(Pool, f, ord, ahead)} :
            \A e \in {InjectAll(Pool, DecodablePrefix(f.recs), ord)} :
                /\ r.injected = DecodablePrefix(f.recs)
                /\ r.err = IF DecodablePrefix(f.recs) = f.recs THEN NoErr ELSE ErrDecode
                /\ r.p.pending = e.pending
                /\ r.p.queue = e.queue
                /\ r.p.all = e.all
                /\ r.p.locals = e.locals
                /\ r.p.pnonce = e.pnonce
                /\ r.p.journaled = <<>>
                /\ ~r.p.writer
                /\ ~f.exists => r.p = Pool /\ r.injected = <<>> /\ r.err = NoErr

\* the transactions the journal file holds
Journaled == Range(journal.files["path"].recs)

(* C25: while journaling is on and the writer is set, every transaction   *)
(* the pool holds, pending or queued, whose sender is a local account is  *)
(* in the journal file, and an admission whose sender is not a local      *)
(* account when it is journaled appends nothing.                          *)
C25_LocalsJournaled ==
    (config.Journal /\ ~config.NoLocals /\ journal.writer /\ journal.rot.pc = "idle") =>
        /\ \A t \in Held(Pool) : Sender(t) \in locals => t \in Journaled
        /\ \A tx \in JournalTxs : \A ord \in Orders :
               Sender(tx) \notin locals =>
                   addTx(Pool, tx, FALSE, ord).p.journaled = <<>>

\* the step is an admission submitted as local that the pool accepted, and
\* it is what put the sender into the set
LocalAdmission ==
    \E tx \in TimeTxs : \E ord \in Orders :
        \E r \in {addTx(Pool, tx, TRUE, ord)} :
            /\ r.errs = <<NoErr>>
            /\ locals' = locals \cup {Sender(tx)}
            /\ pending' = r.p.pending
            /\ queue' = r.p.queue
            /\ all' = r.p.all

(* C26: no step takes an account out of locals, neither a reset nor an    *)
(* eviction nor the removal of all its transactions, and a step that      *)
(* puts an account into locals is an accepted admission submitted as      *)
(* local.                                                                 *)
C26_LocalsMonotone ==
    [][/\ locals \subseteq locals'
       /\ locals' # locals => LocalAdmission]_vars

\* a local account none of whose transactions is left after a reset
C26_Witness ==
    /\ "A" \in locals
    /\ "A" \notin DOMAIN pending
    /\ "A" \notin DOMAIN queue
    /\ head # "G"

-----------------------------------------------------------------------------
(* Signatures: MSigner, SignTx and the sender cache of a transaction *)

MaxChainId == 2     \* signers are made for the chain ids 0..MaxChainId
MaxSigned == 2      \* at most MaxSigned transactions are signed

ChainIds == 0..MaxChainId
RecoveryIds == {0, 1}

ErrInvalidChainId == "invalid chain id for signer"
ErrInvalidSig == "invalid transaction v, r, s values"

\* types.Address{}
ZeroAddress == "0"

\* the address of a public key that is not the key of the signature
Stranger == "X"

\* tx.from before the first Store
NoCache == <<>>

\* NewMSigner(chainId): a nil chain id is the chain id 0
NewMSigner(chainId) == [chainId |-> chainId, chainIdMul |-> chainId * 2]

\* a faulty Equal: any two signers are equal
Equal_any(s, s2) == TRUE

\* MSigner.Equal: eip155.chainId.Cmp(s.chainId) == 0
Equal(s, s2) == s2.chainId = s.chainId

\* MSigner.Hash: the digest over the fields of the transaction and the
\* chain id of the signer
MSigner_Hash(s, tx) == <<tx.payload, s.chainId>>

\* crypto.Sign(h, prv): r and s stand as the key and the digest they sign,
\* v is the recovery id in sig[64]
Sign(h, prv, v) == [key |-> prv, hash |-> h, v |-> v]

\* crypto.Ecrecover(sighash, sig): the signing key when the digest and the
\* recovery id are those of the signature, another public key otherwise
Ecrecover(sighash, sig) ==
    IF sig.hash = sighash /\ sig.v = sig.signedV THEN sig.key ELSE Stranger

\* MSigner.SignatureValues: V is sig[64] + 27 as a byte, and for a chain
\* id other than 0 it is sig[64] + 35 as a byte plus chainIdMul
SignatureValues(s, sig) ==
    [R |-> sig, S |-> sig,
     V |-> IF s.chainId # 0
           THEN ((sig.v + 35) % 256) + s.chainIdMul
           ELSE (sig.v + 27) % 256]

\* tx.WithSignature(signer, sig): a copy of the transaction carrying the
\* values of signer.SignatureValues, its sender cache empty
WithSignature(tx, s, sig) ==
    [payload |-> tx.payload, R |-> SignatureValues(s, sig).R,
     V |-> SignatureValues(s, sig).V, from |-> NoCache]

\* SignTx(tx, s, prv); v is the recovery id crypto.Sign comes up with
SignTx(tx, s, prv, v) == WithSignature(tx, s, Sign(MSigner_Hash(s, tx), prv, v))

\* deriveChainId(v) for the values SignatureValues writes, all of them 27,
\* 28 or at least 35
deriveChainId(v) == IF v \in {27, 28} THEN 0 ELSE (v - 35) \div 2

\* tx.ChainId()
ChainId(tx) == deriveChainId(tx.V)

\* crypto.ValidateSignatureValues(V, R, S, homestead) for r and s that
\* crypto.Sign has made
ValidateSignatureValues(V) == V \in {0, 1}

\* recoverPlain: Vb of more than 8 bits is refused, V is byte(Vb - 27)
recoverPlain(sighash, R, Vb) ==
    IF Vb >= 256 \/ Vb <= -256
    THEN [addr |-> ZeroAddress, err |-> ErrInvalidSig]
    ELSE IF ~ValidateSignatureValues((Vb - 27) % 256)
    THEN [addr |-> ZeroAddress, err |-> ErrInvalidSig]
    ELSE [addr |-> Ecrecover(sighash, [key |-> R.key, hash |-> R.hash,
                                       signedV |-> R.v, v |-> (Vb - 27) % 256]),
          err |-> NoErr]

\* MSigner.Sender: the chain id of the transaction is the signer's, V is
\* tx.V - chainIdMul - 8
MSigner_Sender(s, tx) ==
    IF ChainId(tx) # s.chainId
    THEN [addr |-> ZeroAddress, err |-> ErrInvalidChainId]
    ELSE recoverPlain(MSigner_Hash(s, tx), tx.R, tx.V - s.chainIdMul - 8)

\* transaction.Sender(signer, tx): the cached address when the cached
\* signer equals the presented one, else signer.Sender(tx), cached with
\* the signer when it returns no error; hit tells which of the two it was
TxSender(signer, tx) ==
    IF tx.from # NoCache /\ Equal(tx.from.signer, signer)
    THEN [addr |-> tx.from.from, err |-> NoErr, tx |-> tx, hit |-> TRUE]
    ELSE LET r == MSigner_Sender(signer, tx)
         IN  IF r.err # NoErr
             THEN [addr |-> ZeroAddress, err |-> r.err, tx |-> tx, hit |-> FALSE]
             ELSE [addr |-> r.addr, err |-> NoErr, hit |-> FALSE,
                   tx |-> [tx EXCEPT !.from = [signer |-> signer, from |-> r.addr]]]

\* the pool and the journal stay as they are
SignFrame ==
    UNCHANGED <<config, pending, queue, beats, all, locals, currentState,
                pendingState, head, journal, now, running, txFeed,
                mu, calls, shutdown, chainHeadCh>>

\* SignTx with the signer of chain c and the key of address prv
SignTxCall(c, prv, v) ==
    /\ Len(signed.txs) < MaxSigned
    /\ signed' = [signed EXCEPT
                    !.txs = Append(@, [tx |-> SignTx([payload |-> 0], NewMSigner(c), prv, v),
                                       key |-> prv, chain |-> c])]
    /\ SignFrame

\* Sender with the signer of chain c on the i-th transaction
SenderCall(i, c) ==
    /\ i \in DOMAIN signed.txs
    /\ \E r \in {TxSender(NewMSigner(c), signed.txs[i].tx)} :
           signed' = [signed EXCEPT
                        !.txs[i].tx = r.tx,
                        !.last = [tx |-> i, signer |-> c, addr |-> r.addr,
                                  err |-> r.err, hit |-> r.hit]]
    /\ SignFrame

NextSign ==
    \/ \E c \in ChainIds : \E prv \in Addr : \E v \in RecoveryIds : SignTxCall(c, prv, v)
    \/ \E i \in 1..MaxSigned : \E c \in ChainIds : SenderCall(i, c)

SpecSign == Init /\ [][NextSign]_vars

(* C27: the v that SignatureValues of the signer of chain c writes, for   *)
(* every chain id c from 0 on and both recovery ids, is decoded by the    *)
(* Sender of the same signer to chain id c and to 27 plus the recovery    *)
(* id, so that Sender of a transaction SignTx has just made returns the   *)
(* address of the signing key and no error.                               *)
C27_RoundTrip ==
    \A i \in DOMAIN signed.txs :
        \A t \in {signed.txs[i]} : \A s \in {NewMSigner(t.chain)} :
            /\ ChainId(t.tx) = t.chain
            /\ t.tx.V - s.chainIdMul - 8 = 27 + t.tx.R.v
            /\ MSigner_Sender(s, t.tx) = [addr |-> t.key, err |-> NoErr]
            /\ \A r \in {TxSender(s, [t.tx EXCEPT !.from = NoCache])} :
                   r.addr = t.key /\ r.err = NoErr

\* signer.Sender on the transaction as it is without its cache
Uncached(c, tx) == MSigner_Sender(NewMSigner(c), [tx EXCEPT !.from = NoCache])

(* C28: whatever Sender calls a transaction has seen, a Sender call with  *)
(* any signer returns the address and the error that the signer's own     *)
(* recovery returns on the transaction without its cache; the cached      *)
(* address is returned only when the chain id of the cached signer is     *)
(* that of the presented signer; and what the last call returned is what  *)
(* the recovery with its signer returns.                                  *)
C28_SenderCache ==
    /\ \A i \in DOMAIN signed.txs : \A c \in ChainIds :
           \A t \in {signed.txs[i].tx} :
           \A r \in {TxSender(NewMSigner(c), t)} :
               /\ r.addr = Uncached(c, t).addr
               /\ r.err = Uncached(c, t).err
               /\ r.hit => t.from # NoCache /\ t.from.signer.chainId = c
               /\ r.tx.from # NoCache =>
                      r.tx.from.from = Uncached(r.tx.from.signer.chainId, t).addr
    /\ signed.last # <<>> =>
           /\ signed.last.addr = Uncached(signed.last.signer, signed.txs[signed.last.tx].tx).addr
           /\ signed.last.err = Uncached(signed.last.signer, signed.txs[signed.last.tx].tx).err

\* a transaction whose sender is cached under the signer of chain 1 has
\* been presented the signer of chain 2 and the call returned the error
C28_Witness ==
    /\ signed.last # <<>>
    /\ signed.last.signer = 2
    /\ signed.last.err = ErrInvalidChainId
    /\ ~signed.last.hit
    /\ signed.txs[signed.last.tx].tx.from # NoCache
    /\ signed.txs[signed.last.tx].tx.from.signer.chainId = 1

\* an admission leaves the same pool and returns the same under the
\* journal outcome io with the writer w as with a writer whose write
\* succeeds
SameAdmission(tx, asLocal, ord, io, w) ==
    \A r0 \in {addTx([Pool EXCEPT !.writer = TRUE, !.io = "ok"], tx, asLocal, ord)} :
    \A r \in {addTx([Pool EXCEPT !.writer = w, !.io = io], tx, asLocal, ord)} :
        /\ r.errs = r0.errs
        /\ r.p.pending = r0.p.pending
        /\ r.p.queue = r0.p.queue
        /\ r.p.all = r0.p.all
        /\ r.p.locals = r0.p.locals
        /\ r.p.pnonce = r0.p.pnonce

(* C29: what an admission returns and the pending, queued, all, locals    *)
(* and pendingState it leaves are the same whether the journal write      *)
(* succeeds, fails, is torn or finds no active writer, and no step of a   *)
(* rotation, whatever its outcome, changes any of them.                   *)
C29_JournalFrame ==
    /\ [](journal.rot.pc = "idle" =>
              \A tx \in JournalTxs : \A asLocal \in BOOLEAN : \A ord \in Orders :
                  \A io \in IOs : \A w \in BOOLEAN :
                      SameAdmission(tx, asLocal, ord, io, w))
    /\ [][(journal.rot.pc # "load" /\ journal'.rot # journal.rot) =>
              UNCHANGED <<pending, queue, all, locals, pendingState, chainHeadCh>>]_vars

\* a rotation has failed and left the journal without a writer, and the
\* pool has since admitted a local transaction that is not in the file
C29_Witness ==
    /\ journal.rot.pc = "idle"
    /\ journal.rot.outcome = "failed"
    /\ ~journal.writer
    /\ "A" \in locals
    /\ \E t \in Held(Pool) : Sender(t) = "A" /\ t \notin Journaled

-----------------------------------------------------------------------------
(* A pool with NoLocals set and a journal path configured *)

NoLocalsConfigs == {[c EXCEPT !.NoLocals = TRUE] : c \in TimeConfigs}

\* the journal file an earlier run without NoLocals has left at the path
LeftOver == [exists |-> TRUE, recs |-> <<Tx("A", 0, 1)>>]

\* NewTxPool with NoLocals: newTxJournal, load and rotate are skipped and
\* pool.journal stays nil
InitNoLocals ==
    /\ config \in NoLocalsConfigs
    /\ pending = <<>>
    /\ queue = <<>>
    /\ beats = <<>>
    /\ all = <<>>
    /\ locals = {}
    /\ currentState = StateAt("G")
    /\ pendingState = StateAt("G").nonce
    /\ head = "G"
    /\ journal = [writer |-> FALSE, observed |-> TRUE,
                  files |-> [n \in {"path", "path.new"} |->
                                IF n = "path" THEN LeftOver ELSE NoFile],
                  rot |-> NoRotation]
    /\ now = config.Lifetime + 1
    /\ running = TRUE
    /\ txFeed = Feed({})
    /\ mu = Unlocked
    /\ calls = [t \in Threads |-> NoCall]
    /\ shutdown = Started
    /\ signed = NoSigned
    /\ chainHeadCh = NoEvents

\* every transaction is submitted as local
NextNoLocals ==
    \/ \E tx \in TimeTxs : AddLocal(tx)
    \/ \E txs \in Batches : AddLocals(txs)
    \/ \E b \in BlockIds : ChainHead(b)
    \/ EvictTick
    \/ RotateBegin
    \/ Tick

SpecNoLocals == InitNoLocals /\ [][NextNoLocals]_vars

(* C30: with NoLocals set, locals stays empty and the journal is neither  *)
(* loaded nor written nor rotated in any reachable state; every step of   *)
(* AddLocal is the step AddRemote takes on the same transaction, and      *)
(* every step of AddLocals the step of AddRemotes on the same batch; so   *)
(* every queue of a locally submitted sender is held to the per-account   *)
(* cap like a remote one.                                                 *)
C30_NoLocals ==
    /\ [](/\ locals = {}
          /\ ~journal.writer
          /\ journal.files["path"] = LeftOver
          /\ journal.files["path.new"] = NoFile
          /\ journal.rot = NoRotation
          /\ \A a \in DOMAIN queue : ListLen(queue[a]) <= config.AccountQueue)
    /\ [][\A tx \in TimeTxs : AddLocal(tx) => AddRemote(tx)]_vars
    /\ [][\A txs \in Batches : AddLocals(txs) => AddRemotes(txs)]_vars

\* transactions submitted as local are held, one sender's queue is at its
\* cap, and no account is local
C30_Witness ==
    /\ config.NoLocals
    /\ locals = {}
    /\ pending # <<>>
    /\ \E a \in DOMAIN queue : ListLen(queue[a]) = config.AccountQueue
    /\ now > config.Lifetime + 1

-----------------------------------------------------------------------------
\* the pool of an accepted admission as the pending cap finds it
BeforePendingCap(tx, asLocal) ==
    promoteAccounts(add(Pool, tx, asLocal).p, <<Sender(tx)>>)

\* the senders whose pending list the cap has changed
Shrunk(m, r) == {x \in DOMAIN m.pending : ListOf(r.pending, x) # m.pending[x]}

\* what the pending cap has done to the list of x: the highest nonces are
\* gone, from all too, the rest is as it was and AccountSlots long at
\* least, and the managed nonce is not above a removed one
ShrunkFromTop(m, r, x) ==
    /\ x \notin m.locals
    /\ ListLen(m.pending[x]) > config.AccountSlots
    /\ ListLen(ListOf(r.pending, x)) >= config.AccountSlots
    /\ \A n \in DOMAIN ListOf(r.pending, x) :
          n \in DOMAIN m.pending[x] /\ r.pending[x][n] = m.pending[x][n]
    /\ \A n \in DOMAIN m.pending[x] \ DOMAIN ListOf(r.pending, x) :
          /\ \A k \in DOMAIN ListOf(r.pending, x) : k < n
          /\ Hash(m.pending[x][n]) \notin DOMAIN r.all
          /\ r.pnonce[x] <= n

(* C31: the global pending cap removes only the highest nonces of non      *)
(* local senders whose pending list was longer than AccountSlots, leaves   *)
(* no list shorter than AccountSlots, leaves the lists it has shortened    *)
(* equally long, deletes every removed transaction from all and leaves the *)
(* managed nonce of the sender at or below the lowest removed nonce.       *)
C31_PendingCapShape ==
    \A tx \in CapTxs : \A asLocal \in BOOLEAN : \A ord \in Orders :
        \A a \in {add(Pool, tx, asLocal)} :
            (a.err = NoErr /\ ~a.replace) =>
                \A m \in {BeforePendingCap(tx, asLocal)} :
                \A r \in {capPending(m, ord)} :
                    /\ \A x \in Shrunk(m, r) : ShrunkFromTop(m, r, x)
                    /\ \A x, y \in Shrunk(m, r) :
                          ListLen(r.pending[x]) = ListLen(r.pending[y])
                    /\ r.queue = m.queue
                    /\ r.locals = m.locals

\* an admission after which the cap shortens the lists of two senders
\* that were of different lengths
C31_Witness ==
    \E tx \in CapTxs : \E ord \in Orders :
        \E a \in {add(Pool, tx, FALSE)} :
            /\ a.err = NoErr /\ ~a.replace
            /\ \E m \in {BeforePendingCap(tx, FALSE)} :
               \E r \in {capPending(m, ord)} :
                   /\ Cardinality(Shrunk(m, r)) = 2
                   /\ \E x, y \in Shrunk(m, r) :
                         ListLen(m.pending[x]) > ListLen(m.pending[y])

-----------------------------------------------------------------------------
\* the nonces the per-account cap has taken from the queue of s: they were
\* queued in m, are neither queued nor pending in r, and were neither
\* stale nor unaffordable
CappedOff(m, r, s) ==
    {n \in DOMAIN ListOf(m.queue, s) :
        /\ n \notin DOMAIN ListOf(r.queue, s)
        /\ n \notin DOMAIN ListOf(r.pending, s)
        /\ n >= m.cur.nonce[s]
        /\ Cost(m.queue[s][n]) <= m.cur.balance[s]}

(* C32: after every admission and every reset each sender that is not      *)
(* local has at most AccountQueue queued transactions, while a local one   *)
(* may have more; what the cap takes from a queue are its highest nonces,  *)
(* and each of them is deleted from all.                                   *)
C32_AccountQueueCap ==
    /\ \A a \in DOMAIN queue \ locals : ListLen(queue[a]) <= config.AccountQueue
    /\ \A tx \in Submitted : \A asLocal \in BOOLEAN :
          \A a \in {add(Pool, tx, asLocal)} :
              (a.err = NoErr /\ ~a.replace) =>
                  \A s \in {Sender(tx)} :
                  \A r \in {promoteAccounts(a.p, <<s>>)} :
                  \A n \in CappedOff(a.p, r, s) :
                      /\ s \notin a.p.locals
                      /\ ListLen(ListOf(r.queue, s)) = config.AccountQueue
                      /\ \A k \in DOMAIN ListOf(r.queue, s) : k < n
                      /\ Hash(a.p.queue[s][n]) \notin DOMAIN r.all

\* the admission of one more queued transaction is cut off again by the
\* cap for a sender that is not local, and leaves a local sender with more
\* than AccountQueue queued transactions
C32_Witness ==
    /\ \E tx \in Submitted :
          \E a \in {add(Pool, tx, FALSE)} :
              /\ a.err = NoErr /\ ~a.replace
              /\ CappedOff(a.p, promoteAccounts(a.p, <<Sender(tx)>>), Sender(tx)) = {tx.nonce}
    /\ \E tx \in Submitted : \E ord \in Orders :
          \E r \in {addTx(Pool, tx, TRUE, ord)} :
              /\ r.errs = <<NoErr>>
              /\ Sender(tx) \in locals
              /\ ListLen(ListOf(r.p.queue, Sender(tx))) > config.AccountQueue

-----------------------------------------------------------------------------
(* C33: after every admission and every reset the managed nonce of every   *)
(* sender that has pending transactions is its highest pending nonce plus  *)
(* one.                                                                    *)
C33_ManagedNonce ==
    \A a \in DOMAIN pending :
        pending[a] # <<>> => pendingState[a] = SetMax(DOMAIN pending[a]) + 1

\* a reset has included the first transactions of a sender and left later
\* ones pending, and the pending cap has cut the list of another
C33_Witness ==
    /\ head # "G"
    /\ \E a \in DOMAIN pending :
          /\ currentState.nonce[a] > 0
          /\ SetMin(DOMAIN pending[a]) = currentState.nonce[a]
          /\ pendingState[a] > currentState.nonce[a]
    /\ \E tx \in CapTxs : \E ord \in Orders :
          \E m \in {BeforePendingCap(tx, FALSE)} :
              /\ add(Pool, tx, FALSE).err = NoErr
              /\ Shrunk(m, capPending(m, ord)) # {}

-----------------------------------------------------------------------------
\* the new head is the child of the old one
ParentLinked(old, new) == old = Headers[new].parent

\* the heads are more than 64 blocks apart
TooDeep(old, new) == Abs(Headers[old].number - Headers[new].number) > MaxReorgDepth

\* reset without its repair: the state of the new head, the demotion, the
\* managed nonces, the promotion
ResetUnrepaired(p, new, ord) ==
    CHOOSE r \in
        {promoteExecutables(p4, QueueAccounts(p4, ord), ord) :
           p4 \in {bumpNonces(p3, DOMAIN p3.pending) :
              p3 \in {demoteUnexecutables([p EXCEPT !.cur = StateAt(new),
                                                   !.pnonce = StateAt(new).nonce])}}} : TRUE

(* C34: reset reinjects something only when the old head is not the        *)
(* parent of the new one and the two are at most 64 blocks apart; when the *)
(* new head is the child of the old one, or the two are further apart, it  *)
(* reinjects nothing and, the state of the new head being there, still     *)
(* installs that state, demotes the pending transactions it invalidates    *)
(* and promotes the queued ones it makes executable.                       *)
C34_RepairOnlyOnShallowReorg ==
    \A b \in HeaderIds : \A ord \in Orders :
        running =>
            /\ Reinject(head, b).txs # <<>> =>
                   ~ParentLinked(head, b) /\ ~TooDeep(head, b)
            /\ (ParentLinked(head, b) \/ TooDeep(head, b)) =>
                   /\ Reinject(head, b) = [ok |-> TRUE, panic |-> FALSE, txs |-> <<>>]
                   /\ b \in HasState =>
                          \A r \in {reset(Pool, head, b, ord)} :
                              /\ r = ResetUnrepaired(Pool, b, ord)
                              /\ r.cur = StateAt(b)
                              /\ Held(r) \subseteq Held(Pool)
                              /\ \A t \in PendingTxs(r) :
                                     /\ t.nonce >= StateAt(b).nonce[Sender(t)]
                                     /\ t.nonce < r.pnonce[Sender(t)]

\* the old head is 65 blocks ahead of a new head whose block includes a
\* transaction that is pending and leaves another one executable
C34_Witness ==
    /\ running
    /\ head = "F"
    /\ \E b \in BlockIds : \E ord \in Orders :
          /\ TooDeep(head, b) /\ ~ParentLinked(head, b)
          /\ \E t \in PendingTxs(Pool) : t \notin Held(reset(Pool, head, b, ord))
          /\ \E t \in QueuedTxs(Pool) : t \in PendingTxs(reset(Pool, head, b, ord))


-----------------------------------------------------------------------------
(* The loop's chain-head case.  The chain sends its ChainHeadEvents on    *)
(* pool.chainHeadCh, a buffered channel that the loop alone receives      *)
(* from; the loop keeps the block of the last event it handled in its     *)
(* local variable head, which starts as pool.chain.CurrentBlock().        *)

\* chainHeadChanSize = 10
chainHeadChanSize == 10

\* the number of events the chain sends
MaxEvents == 3

\* the events the chain sends, NoBlock being one whose Block is nil: X1 extends G, X2 extends X1, and Y1 is a
\* sibling of X1, so that X2 followed by Y1 is a reorganisation
LoopEvents == {NoBlock, "X1", "X2", "Y1"}

\* head := pool.chain.CurrentBlock() at the start of the loop
StartBlock == "G"

\* the chain's feed sends ev on the subscribed channel; a send on a full
\* channel blocks
Post(ev) ==
    /\ running
    /\ shutdown.sub
    /\ Len(chainHeadCh.sent) < MaxEvents
    /\ Len(chainHeadCh.buf) < chainHeadChanSize
    /\ chainHeadCh' = [chainHeadCh EXCEPT !.buf = Append(@, ev),
                                          !.sent = Append(@, ev)]
    /\ UNCHANGED <<config, pending, queue, beats, all, locals, currentState,
                   pendingState, head, journal, now, running, txFeed, mu, calls,
                   shutdown, signed>>

\* case ev := <-pool.chainHeadCh: the oldest event leaves the channel; with
\* ev.Block == nil the loop is back at its select at once
LoopRecv ==
    /\ running
    /\ shutdown.loop = "running"
    /\ calls["loop"].pc = "idle"
    /\ chainHeadCh.buf # <<>>
    /\ chainHeadCh' = [chainHeadCh EXCEPT !.buf = Tail(@),
                                          !.recv = Append(@, Head(chainHeadCh.buf))]
    /\ calls' = [calls EXCEPT !["loop"] =
                    IF Head(chainHeadCh.buf) = NoBlock THEN NoCall
                    ELSE [op |-> "chainHead", pc |-> "recv",
                          arg |-> Head(chainHeadCh.buf)]]
    /\ UNCHANGED <<config, pending, queue, beats, all, locals, currentState,
                   pendingState, head, journal, now, running, txFeed, mu,
                   shutdown, signed>>

\* pool.mu.Lock() of the chain-head case
LoopLock ==
    /\ calls["loop"].pc = "recv"
    /\ mu.writer = ""
    /\ mu.readers = {}
    /\ mu' = [mu EXCEPT !.writer = "loop"]
    /\ calls' = [calls EXCEPT !["loop"].pc = "held"]
    /\ UNCHANGED <<config, pending, queue, beats, all, locals, currentState,
                   pendingState, head, journal, now, running, txFeed, shutdown,
                   signed, chainHeadCh>>

\* the loop beside one caller that adds transactions and asks for the stats
NextLoop ==
    \/ \E ev \in LoopEvents : Post(ev)
    \/ LoopRecv
    \/ LoopLock
    \/ BodyReset("loop")
    \/ Unlock("loop")
    \/ \E op \in {"AddRemote", "Stats"} : \E arg \in ArgsOf(op) : Lock("t1", op, arg)
    \/ BodyAdd("t1")
    \/ BodyPromote("t1")
    \/ BodyRead("t1")
    \/ Unlock("t1")

SpecLoop == Init /\ [][NextLoop]_vars

\* the blocks of the events received so far, in the order of reception
BlocksOf(evs) == SelectSeq(evs, LAMBDA ev : ev # NoBlock)

\* the block of the k-th received event that has one, the start block for
\* k = 0
HandledBlock(k) ==
    IF k = 0 THEN StartBlock ELSE BlocksOf(chainHeadCh.recv)[k]

\* the loop has received an event with a block and not yet run its reset
BeforeReset == calls["loop"].pc \in {"recv", "held"}

\* the reset of the k-th handled event runs in this step
KthReset(k) ==
    /\ calls["loop"].pc = "held"
    /\ calls'["loop"].pc = "done"
    /\ k = Len(BlocksOf(chainHeadCh.recv))

\* an event without a block is received in this step
NilReceived ==
    /\ chainHeadCh.buf # <<>>
    /\ Head(chainHeadCh.buf) = NoBlock
    /\ chainHeadCh'.recv # chainHeadCh.recv

(* C35: the loop receives the chain-head events in the order of their    *)
(* arrival; the reset of the k-th event with a block runs under the write *)
(* lock with oldHead the block of the (k-1)-th such event (the start      *)
(* block for the first) and newHead the k-th event's block; an event      *)
(* without a block runs no reset and leaves the remembered head alone.    *)
C35_LoopOrder ==
    /\ [](/\ chainHeadCh.sent = chainHeadCh.recv \o chainHeadCh.buf
          /\ calls["loop"].pc \in {"held", "done"} => mu.writer = "loop"
          /\ head = HandledBlock(Len(BlocksOf(chainHeadCh.recv))
                                 - (IF BeforeReset THEN 1 ELSE 0)))
    /\ [][/\ \A k \in 1..MaxEvents :
                 KthReset(k) =>
                     /\ mu.writer = "loop"
                     /\ \E ord \in Orders :
                            Install(reset(Pool, HandledBlock(k - 1),
                                          HandledBlock(k), ord))
                     /\ head' = HandledBlock(k)
          /\ NilReceived =>
                 /\ head' = head
                 /\ calls'["loop"] = NoCall
                 /\ UNCHANGED <<pending, queue, beats, all, locals,
                                currentState, pendingState, mu>>]_vars

\* the loop has handled a reorganisation from X2 to Y1 with an event without
\* a block between the two, and holds the lock for a further reset
C35_Witness ==
    /\ \E i, j, k \in DOMAIN chainHeadCh.recv :
           /\ i < j /\ j < k
           /\ chainHeadCh.recv[i] = "X2"
           /\ chainHeadCh.recv[j] = NoBlock
           /\ chainHeadCh.recv[k] = "Y1"
    /\ calls["loop"].pc = "done"
    /\ head = "Y1"


-----------------------------------------------------------------------------
(* A pool made with AccountSlots = 0.  NewTxPool passes the configuration  *)
(* through sanitize, which corrects Rejournal alone; the other fields are *)
(* used as given.                                                          *)

ZeroConfigs == {[NoLocals |-> FALSE, Journal |-> TRUE, AccountSlots |-> 0,
                 GlobalSlots |-> 1, AccountQueue |-> 2, GlobalQueue |-> 2,
                 Lifetime |-> 1]}

InitZero ==
    /\ config \in ZeroConfigs
    /\ pending = <<>>
    /\ queue = <<>>
    /\ beats = <<>>
    /\ all = <<>>
    /\ locals = {}
    /\ currentState = StateAt("G")
    /\ pendingState = StateAt("G").nonce
    /\ head = "G"
    /\ journal = Unobserved(config.Journal /\ ~config.NoLocals)
    /\ now = config.Lifetime + 1
    /\ running = TRUE
    /\ txFeed = Feed({})
    /\ mu = Unlocked
    /\ calls = [t \in Threads |-> NoCall]
    /\ shutdown = Started
    /\ signed = NoSigned
    /\ chainHeadCh = NoEvents

\* admissions and the eviction tick
NextZero ==
    \/ \E tx \in CapTxs : AddLocal(tx)
    \/ \E tx \in CapTxs : AddRemote(tx)
    \/ EvictTick

SpecZero == InitZero /\ [][NextZero]_vars

\* a queued transaction of a that is executable or stale: its nonce is the
\* managed nonce, or below the state nonce, or its cost is above the balance
Executable(a, n) == n = pendingState[a]
Stale(a, n)      == n < currentState.nonce[a]
Unpayable(a, n)  == Cost(queue[a][n]) > currentState.balance[a]

(* C36: after every completed admission and reset no queued transaction   *)
(* has the managed nonce of its sender, a nonce below the sender's state   *)
(* nonce or a cost above the sender's balance, and neither pending nor     *)
(* queue holds an empty list.                                              *)
C36_QueueSettled ==
    /\ \A a \in DOMAIN queue : \A n \in DOMAIN queue[a] :
           ~Executable(a, n) /\ ~Stale(a, n) /\ ~Unpayable(a, n)
    /\ \A a \in DOMAIN pending : pending[a] # <<>>
    /\ \A a \in DOMAIN queue : queue[a] # <<>>

=============================================================================
